---- MODULE Spec2Model ----
(***************************************************************************)
(* http-kit: the middleware dispatch chain (App, Next, Middleware,         *)
(* Endpoint) and the Body engine (Body, BodyInner).                        *)
(*                                                                         *)
(* SpecChain is one App: middlewares are added, then App::run executes the *)
(* chain as a stack of nested futures.  SpecBody is two Body handles and   *)
(* the operations of impl Body on them.  SpecView is the reader view       *)
(* (IntoAsyncRead) of a Body and the reads made on it.  SpecDecode is a    *)
(* body decoded with into_json / into_form.  SpecCalls is two App::run     *)
(* calls on one App, interleaved, each with its own Request; SpecRequest   *)
(* is one such call whose handlers take, read and replace the body.        *)
(* SpecOwner is a Request/Response reading its body whole with into_bytes  *)
(* and into_string.                                                        *)
(* SpecStatus is one use of ResultExt::status on a Result or an Option.    *)
(***************************************************************************)
EXTENDS Integers, Sequences, FiniteSets, TLC

\* Longest middleware list an App is built with.
MaxMiddlewares == 3

VARIABLES
    middlewares,    \* App.middlewares : Vec<SharedMiddleware>
    endpoint,       \* App.endpoint
    phase,          \* "build" (before run), "running" (inside App::run), "done"
    stack,          \* the nested futures of the in-flight App::run, outermost first
    result,         \* what App::run returned
    trace           \* history: what each handler observed, in order

chainVars == <<middlewares, endpoint, phase, stack, result, trace>>

VARIABLES
    body,           \* a Body handle reached through &mut (Request.body / Response.body)
    other,          \* a second Body, owned by the caller (absent once moved out)
    job,            \* the into_bytes / as_bytes future in flight, if any
    mark,           \* history: per handle, how its current value came about
    last            \* history: the last operation, its arguments and what it returned

bodyVars == <<body, other, job, mark, last>>

VARIABLES
    view,           \* the IntoAsyncRead made of a Body by into_reader
    rd              \* history: the last call on the view, the bytes read so far,
                    \* and every poll the view made of its stream

viewVars == <<view, rd>>

VARIABLE
    calls           \* the App::run calls in flight on the one App, each with its own
                    \* Request, nested futures and history

VARIABLE
    ext             \* one use of ResultExt::status: the receiver, the status passed,
                    \* the build, and what the call returned

vars ==
    <<middlewares, endpoint, phase, stack, result, trace, body, other, job, mark, last,
      view, rd, calls, ext>>

-----------------------------------------------------------------------------
(***************************************************************************)
(* Body engine: values                                                     *)
(***************************************************************************)

\* Option<T>: None is <<>>, Some(x) is <<x>>.
None == <<>>
Some(x) == <<x>>

\* One item a reader or a chunk stream delivers: a chunk of bytes, or a
\* failure.
Chunk(data) == [err |-> FALSE, data |-> data]
Failure == [err |-> TRUE, data |-> <<>>]

\* enum BodyInner.  Once(bytes); Reader { reader, length } with the reader's
\* pending items; Stream(stream) with the stream's pending items and whether
\* it has already signalled its end; Freeze.
Once(bytes) ==
    [kind |-> "Once", bytes |-> bytes, items |-> <<>>, length |-> None, ended |-> FALSE]
Reader(items, length) ==
    [kind |-> "Reader", bytes |-> <<>>, items |-> items, length |-> length, ended |-> FALSE]
Stream(items) ==
    [kind |-> "Stream", bytes |-> <<>>, items |-> items, length |-> None, ended |-> FALSE]
Freeze ==
    [kind |-> "Freeze", bytes |-> <<>>, items |-> <<>>, length |-> None, ended |-> FALSE]

\* Body::empty()
empty == Once(<<>>)

\* Body::frozen()
frozen == Freeze

\* Body::from_bytes(data)
from_bytes(data) == Once(data)

\* Body::from_reader(reader, length)
from_reader(items, length) == Reader(items, length)

\* Body::from_stream(stream)
from_stream(items) == Stream(items)

-----------------------------------------------------------------------------
(***************************************************************************)
(* Middleware dispatch chain                                               *)
(***************************************************************************)

\* Handles that can be added to an App: two user middlewares and the unit
\* middleware ().
Handles == {"A", "B", "unit"}

\* Endpoints an App can be created from: a user endpoint and the unit
\* endpoint ().
Endpoints == {"E", "unit"}

StatusOk == 200

NoResult == [tag |-> "None", by |-> 0, status |-> 0, body |-> None]

\* Result<Response>: Ok(response) or Err(error), with the position of the
\* handler that created the value (the value's identity).  A response a
\* user handler makes carries a body of the handler's own bytes; an error
\* carries none.
Ok(by, status) ==
    [tag |-> "Ok", by |-> by, status |-> status, body |-> Some(from_bytes(<<by>>))]
Err(by, status) == [tag |-> "Err", by |-> by, status |-> status, body |-> None]

\* A 200 response whose body is Body::frozen().
ResponseFrozen(by) == [Ok(by, StatusOk) EXCEPT !.body = Some(frozen)]

\* Response::empty(): Response::new(StatusCode::OK, Body::empty()).
ResponseEmpty(by) == [Ok(by, StatusOk) EXCEPT !.body = Some(empty)]

\* A Next that has been moved out of its owner (run takes self by value).
Moved == <<>>

\* Next::new(remain, endpoint): the slice remain is middlewares[off..]; the
\* endpoint reference is always the App's.
NextNew(off) == <<off>>

\* Position of the endpoint in the chain order.
EndpointPos == Len(middlewares) + 1

\* Status of a crate::Error made from any error (From<E> for Error).
StatusErr == 503

\* The results a user handler (middleware or endpoint) at position pos may
\* create itself.
OwnResults(pos) == {Ok(pos, StatusOk), Err(pos, StatusErr)}

Event(ev, pos, res, called) == [ev |-> ev, pos |-> pos, res |-> res, called |-> called]

\* The future of first.call_middleware(request, next): the middleware at
\* position pos, holding its continuation next.
MiddlewareFrame(pos, next) ==
    [kind |-> "mw", handle |-> middlewares[pos], pos |-> pos, next |-> next,
     st |-> "run", got |-> NoResult, called |-> 0]

\* The future of endpoint.call_endpoint(request).
EndpointFrame ==
    [kind |-> "ep", handle |-> endpoint, pos |-> EndpointPos, next |-> Moved,
     st |-> "run", got |-> NoResult, called |-> 0]

\* Next::run(self, request) with self.remain = middlewares[off..]: split_first
\* gives the first handle and a fresh Next over the rest; an empty remain
\* calls the endpoint.
NextRunSkipFirst(next) ==
    IF next[1] + 1 <= Len(middlewares)
    THEN MiddlewareFrame(next[1] + 1, NextNew(next[1] + 2))
    ELSE EndpointFrame

NextRun(next) ==
    IF next[1] <= Len(middlewares)
    THEN MiddlewareFrame(next[1], NextNew(next[1] + 1))
    ELSE EndpointFrame

\* run takes self by value: the caller's Next is gone once run is called.
KeepNext(frame) == [frame EXCEPT !.st = "await", !.called = @ + 1]

ConsumeNext(frame) == [frame EXCEPT !.next = Moved, !.st = "await", !.called = @ + 1]

\* What Next::run (and App::run) hands back to its caller: the awaited result
\* of the handler it called, as it is.
RunReturnErrToResponse(r) == IF r.tag = "Err" THEN Ok(r.by, r.status) ELSE r

RunReturn(r) == r

\* App::new(endpoint): no middleware yet, nothing in flight; the Body handles
\* are not looked at by the chain.
ChainInit ==
    /\ middlewares = <<>>
    /\ endpoint \in Endpoints
    /\ phase = "build"
    /\ stack = <<>>
    /\ result = NoResult
    /\ trace = <<>>
    /\ body = 0
    /\ other = 0
    /\ job = 0
    /\ mark = 0
    /\ last = 0
    /\ view = 0
    /\ rd = 0
    /\ calls = 0
    /\ ext = 0

\* A list that takes the new handle in front.
AddMiddlewareInFront(h) ==
    /\ phase = "build"
    /\ Len(middlewares) < MaxMiddlewares
    /\ middlewares' = <<h>> \o middlewares
    /\ UNCHANGED <<endpoint, phase, stack, result, trace>>
    /\ UNCHANGED <<bodyVars, viewVars, calls, ext>>

\* App::add_middleware / App::middleware: push at the end of the list.
AddMiddleware(h) ==
    /\ phase = "build"
    /\ Len(middlewares) < MaxMiddlewares
    /\ middlewares' = Append(middlewares, h)
    /\ UNCHANGED <<endpoint, phase, stack, result, trace>>
    /\ UNCHANGED <<bodyVars, viewVars, calls, ext>>

\* App::run: Next::new(&self.middlewares, &self.endpoint).run(&mut request).
AppRun ==
    /\ phase = "build"
    /\ phase' = "running"
    /\ LET f == NextRun(NextNew(1)) IN
        /\ stack' = <<f>>
        /\ trace' = Append(trace, Event("enter", f.pos, NoResult, FALSE))
    /\ UNCHANGED <<middlewares, endpoint, result>>
    /\ UNCHANGED <<bodyVars, viewVars, calls, ext>>

Top == stack[Len(stack)]

InControl(kind) ==
    /\ phase = "running"
    /\ stack # <<>>
    /\ Top.kind = kind
    /\ Top.st = "run"

\* Any middleware that holds its continuation calls next.run(request).
MwCallNextAnyHandle ==
    /\ InControl("mw")
    /\ Top.next # Moved
    /\ LET f == NextRun(Top.next) IN
        /\ stack' = Append([stack EXCEPT ![Len(stack)] = ConsumeNext(Top)], f)
        /\ trace' = trace \o <<Event("call", Top.pos, NoResult, FALSE),
                               Event("enter", f.pos, NoResult, FALSE)>>
    /\ UNCHANGED <<middlewares, endpoint, phase, result>>
    /\ UNCHANGED <<bodyVars, viewVars, calls, ext>>

\* A user middleware that holds its continuation calls next.run(request).
MwCallNext ==
    /\ InControl("mw")
    /\ Top.handle # "unit"
    /\ Top.next # Moved
    /\ LET f == NextRun(Top.next) IN
        /\ stack' = Append([stack EXCEPT ![Len(stack)] = ConsumeNext(Top)], f)
        /\ trace' = trace \o <<Event("call", Top.pos, NoResult, FALSE),
                               Event("enter", f.pos, NoResult, FALSE)>>
    /\ UNCHANGED <<middlewares, endpoint, phase, result>>
    /\ UNCHANGED <<bodyVars, viewVars, calls, ext>>

\* The handler on top of the stack returns r: its future completes, and the
\* enclosing Next::run (or App::run) returns to whoever awaited it.
Complete(r) ==
    LET rest == SubSeq(stack, 1, Len(stack) - 1)
        ret == Event("return", Top.pos, r, Top.called > 0)
    IN  IF rest = <<>>
        THEN /\ stack' = <<>>
             /\ phase' = "done"
             /\ result' = RunReturn(r)
             /\ trace' = Append(trace, ret)
        ELSE LET parent == rest[Len(rest)]
                 got == RunReturn(r)
             IN /\ stack' = [rest EXCEPT ![Len(rest)] =
                                [parent EXCEPT !.st = "run", !.got = got]]
                /\ trace' = trace \o <<ret, Event("post", parent.pos, got, FALSE)>>
                /\ UNCHANGED <<phase, result>>

\* What a middleware in control may return: the result it got from its
\* continuation, or a result of its own.  impl Middleware for () returns
\* Ok(Response::empty()) and never touches its Next.
MwReturns(f) ==
    IF f.handle = "unit"
    THEN {ResponseEmpty(f.pos)}
    ELSE OwnResults(f.pos) \cup (IF f.got = NoResult THEN {} ELSE {f.got})

MwReturn(r) ==
    /\ InControl("mw")
    /\ r \in MwReturns(Top)
    /\ Complete(r)
    /\ UNCHANGED <<middlewares, endpoint>>
    /\ UNCHANGED <<bodyVars, viewVars, calls, ext>>

\* impl Endpoint for () returns Ok(Response::empty()); a user endpoint
\* returns a response or fails.
EpReturns(f) ==
    IF f.handle = "unit" THEN {ResponseEmpty(f.pos)} ELSE OwnResults(f.pos)

EpReturn(r) ==
    /\ InControl("ep")
    /\ r \in EpReturns(Top)
    /\ Complete(r)
    /\ UNCHANGED <<middlewares, endpoint>>
    /\ UNCHANGED <<bodyVars, viewVars, calls, ext>>

\* A middleware that raced next.run(request) against something else (the
\* timeout middleware of the module documentation) drops the inner future:
\* every handler inside it is dropped without returning.
MwAbandon(j) ==
    /\ phase = "running"
    /\ j \in 1..(Len(stack) - 1)
    /\ stack[j].kind = "mw"
    /\ stack[j].st = "await"
    /\ stack' = [SubSeq(stack, 1, j) EXCEPT ![j] = [stack[j] EXCEPT !.st = "run"]]
    /\ trace' = Append(trace, Event("abandon", stack[j].pos, NoResult, TRUE))
    /\ UNCHANGED <<middlewares, endpoint, phase, result>>
    /\ UNCHANGED <<bodyVars, viewVars, calls, ext>>

AllResults ==
    {NoResult}
        \cup UNION {OwnResults(p) \cup {ResponseEmpty(p), ResponseFrozen(p)} :
                        p \in 1..(MaxMiddlewares + 2)}

ChainNext ==
    \/ \E h \in Handles : AddMiddleware(h)
    \/ AppRun
    \/ MwCallNext
    \/ \E r \in AllResults : MwReturn(r)
    \/ \E r \in AllResults : EpReturn(r)
    \/ \E j \in 1..MaxMiddlewares : MwAbandon(j)

SpecChain == ChainInit /\ [][ChainNext]_vars

-----------------------------------------------------------------------------
(***************************************************************************)
(* Body engine: the bodies operated on                                     *)
(***************************************************************************)

\* The buffers, readers and streams bodies are constructed from.
BytesPool == {<<>>, <<1>>, <<1, 2>>}

\* Readers with their declared length: absent, exact, or too small.
ReaderPool ==
    {<<<<>>, None>>,
     <<<<Chunk(<<1>>)>>, Some(1)>>,
     <<<<Chunk(<<1, 2>>), Chunk(<<3>>)>>, None>>,
     <<<<Chunk(<<1, 2>>), Chunk(<<3>>)>>, Some(2)>>,
     <<<<Chunk(<<1>>), Failure>>, None>>}

StreamPool ==
    {<<>>, <<Chunk(<<1>>)>>, <<Chunk(<<1>>), Chunk(<<2>>)>>,
     <<Chunk(<<1>>), Chunk(<<>>), Chunk(<<2>>), Chunk(<<3>>)>>,
     <<Chunk(<<1>>), Failure>>}

\* Every Body a constructor other than frozen() makes.
FreshPool ==
    {from_bytes(b) : b \in BytesPool}
        \cup {from_reader(r[1], r[2]) : r \in ReaderPool}
        \cup {from_stream(c) : c \in StreamPool}

BodyPool == FreshPool \cup {frozen}

\* The bodies passed to replace: one of each variant.
ReplacePool ==
    {from_bytes(<<1, 2>>), from_reader(<<Chunk(<<1>>)>>, Some(1)),
     from_stream(<<Chunk(<<1>>), Chunk(<<2>>)>>), frozen}

\* What an operation on a Body returns.
NoRet == [tag |-> "None", err |-> "", body |-> None, bytes |-> <<>>, flag |-> FALSE, size |-> None]
OkUnit == [NoRet EXCEPT !.tag = "Ok"]
OkBody(b) == [NoRet EXCEPT !.tag = "Ok", !.body = Some(b)]
OkBytes(bytes) == [NoRet EXCEPT !.tag = "Ok", !.bytes = bytes]
Value(flag) == [NoRet EXCEPT !.tag = "Value", !.flag = flag]
Size(size) == [NoRet EXCEPT !.tag = "Value", !.size = size]
Fail(err) == [NoRet EXCEPT !.tag = "Err", !.err = err]

\* BodyFrozen / Error::BodyFrozen
BodyFrozen == Fail("BodyFrozen")

(***************************************************************************)
(* Body engine: the synchronous operations of impl Body                    *)
(***************************************************************************)

\* Body::is_frozen
is_frozen(self) == self.kind = "Freeze"

\* Body::len
len(self) == IF self.kind = "Once" THEN Some(Len(self.bytes)) ELSE None

\* Body::replace: std::mem::replace(self, body).
replace_returns_new(self, new) == [self |-> new, ret |-> OkBody(new)]

replace(self, new) == [self |-> new, ret |-> OkBody(self)]

\* Body::take
take_leaves_value(self) ==
    IF is_frozen(self) THEN [self |-> self, ret |-> BodyFrozen]
    ELSE [self |-> self, ret |-> OkBody(self)]

take(self) ==
    IF is_frozen(self)
    THEN [self |-> self, ret |-> BodyFrozen]
    ELSE LET r == replace(self, frozen) IN [self |-> r.self, ret |-> r.ret]

\* Body::swap: only self is checked.
swap_unchecked(self, o) == [self |-> o, other |-> self, ret |-> OkUnit]

swap_fails_after_swapping(self, o) ==
    IF is_frozen(self)
    THEN [self |-> o, other |-> self, ret |-> BodyFrozen]
    ELSE [self |-> o, other |-> self, ret |-> OkUnit]

swap_checks_either(self, o) ==
    IF is_frozen(self) \/ is_frozen(o)
    THEN [self |-> self, other |-> o, ret |-> BodyFrozen]
    ELSE [self |-> o, other |-> self, ret |-> OkUnit]

swap(self, o) ==
    IF is_frozen(self)
    THEN [self |-> self, other |-> o, ret |-> BodyFrozen]
    ELSE [self |-> o, other |-> self, ret |-> OkUnit]

\* Body::freeze: self.replace(Self::frozen()), the old value is dropped.
freeze_keeps_buffer(self) ==
    [self |-> IF self.kind = "Once" THEN self ELSE frozen, ret |-> OkUnit]

freeze(self) == [self |-> replace(self, frozen).self, ret |-> OkUnit]

(***************************************************************************)
(* Body engine: readers, streams and the asynchronous operations           *)
(***************************************************************************)

\* Longest buffer into_bytes is followed to while it reads a reader.
MaxVec == 4

\* Width of usize in the model.
UsizeBits == 16

UsizeModulus == 2 ^ UsizeBits

\* What polling a stream that has already signalled its end may do: the
\* Stream contract leaves it open (end again, or a panic).
AfterEnd == {"end", "panic"}

\* What an arithmetic overflow does: a panic (debug build) or a wrap-around
\* (release build).
Overflow == {"panic", "wrap"}

\* Stream::poll_next / try_next on the inner stream, when it is ready.
stream_poll(src, after) ==
    IF src.items = <<>>
    THEN IF src.ended
         THEN [src |-> src, out |-> after, data |-> <<>>, overrun |-> TRUE]
         ELSE [src |-> [src EXCEPT !.ended = TRUE], out |-> "end", data |-> <<>>,
               overrun |-> FALSE]
    ELSE [src |-> [src EXCEPT !.items = Tail(@)],
          out |-> IF Head(src.items).err THEN "err" ELSE "data",
          data |-> Head(src.items).data, overrun |-> FALSE]

\* AsyncBufRead::fill_buf on the inner reader: the pending bytes, which stay
\* pending until consume is called; no bytes at the end of the source.
reader_fill(src) ==
    IF src.items = <<>> THEN [out |-> "data", data |-> <<>>]
    ELSE IF Head(src.items).err THEN [out |-> "err", data |-> <<>>]
    ELSE [out |-> "data", data |-> Head(src.items).data]

\* AsyncBufRead::consume(amt)
reader_consume(src, amt) ==
    IF src.items = <<>> THEN src
    ELSE LET d == Head(src.items).data IN
         IF amt >= Len(d) THEN [src EXCEPT !.items = Tail(@)]
         ELSE [src EXCEPT !.items =
                  <<Chunk(SubSeq(d, amt + 1, Len(d)))>> \o Tail(@)]

\* No into_bytes / as_bytes future in flight.
Idle ==
    [pc |-> "idle", via |-> "", target |-> "", src |-> frozen, vec |-> <<>>,
     first |-> <<>>, ret |-> NoRet, overrun |-> FALSE]

Returned(j, ret) == [j EXCEPT !.pc = "ret", !.ret = ret]

\* Body::into_bytes up to its first await: the match on self.inner.
into_bytes_begin_drops_buffer(self) ==
    CASE self.kind = "Once" -> Returned([Idle EXCEPT !.src = self], OkBytes(<<>>))
      [] self.kind = "Reader" -> [Idle EXCEPT !.pc = "reader", !.src = self]
      [] self.kind = "Stream" -> [Idle EXCEPT !.pc = "first", !.src = self]
      [] OTHER -> Returned([Idle EXCEPT !.src = self], BodyFrozen)

into_bytes_begin(self) ==
    CASE self.kind = "Once" -> Returned([Idle EXCEPT !.src = self], OkBytes(self.bytes))
      [] self.kind = "Reader" -> [Idle EXCEPT !.pc = "reader", !.src = self]
      [] self.kind = "Stream" -> [Idle EXCEPT !.pc = "first", !.src = self]
      [] OTHER -> Returned([Idle EXCEPT !.src = self], BodyFrozen)

\* Body::into_bytes from one await to the next.
into_bytes_step_prepends(j, after) ==
    IF j.pc = "reader"
    THEN LET f == reader_fill(j.src) IN
         IF f.out = "err" THEN Returned(j, Fail("Io"))
         ELSE IF f.data = <<>> THEN Returned(j, OkBytes(j.vec))
         ELSE [j EXCEPT !.vec = @ \o f.data]
    ELSE LET p == stream_poll(j.src, after)
             k == [j EXCEPT !.src = p.src, !.overrun = @ \/ p.overrun]
         IN  CASE p.out = "err" -> Returned(k, Fail("Other"))
               [] p.out = "panic" -> Returned(k, [NoRet EXCEPT !.tag = "Panic"])
               [] p.out = "end" ->
                    CASE j.pc = "first" -> [k EXCEPT !.pc = "second", !.first = <<>>]
                      [] j.pc = "second" -> Returned(k, OkBytes(j.first))
                      [] OTHER -> Returned(k, OkBytes(j.vec))
               [] OTHER ->
                    CASE j.pc = "first" -> [k EXCEPT !.pc = "second", !.first = p.data]
                      [] j.pc = "second" ->
                            [k EXCEPT !.pc = "drain", !.vec = p.data \o j.first]
                      [] OTHER -> [k EXCEPT !.vec = p.data \o @]

\* An into_bytes that answers a failure of its source with the bytes it has.
into_bytes_step_swallows(j, after) ==
    IF j.pc = "reader"
    THEN LET f == reader_fill(j.src) IN
         IF f.out = "err" THEN Returned(j, OkBytes(j.vec))
         ELSE IF f.data = <<>> THEN Returned(j, OkBytes(j.vec))
         ELSE [j EXCEPT !.vec = @ \o f.data]
    ELSE LET p == stream_poll(j.src, after)
             k == [j EXCEPT !.src = p.src, !.overrun = @ \/ p.overrun]
         IN  CASE p.out = "err" ->
                    Returned(k, OkBytes(IF j.pc = "drain" THEN j.vec ELSE j.first))
               [] p.out = "panic" -> Returned(k, [NoRet EXCEPT !.tag = "Panic"])
               [] p.out = "end" ->
                    CASE j.pc = "first" -> [k EXCEPT !.pc = "second", !.first = <<>>]
                      [] j.pc = "second" -> Returned(k, OkBytes(j.first))
                      [] OTHER -> Returned(k, OkBytes(j.vec))
               [] OTHER ->
                    CASE j.pc = "first" -> [k EXCEPT !.pc = "second", !.first = p.data]
                      [] j.pc = "second" ->
                            [k EXCEPT !.pc = "drain", !.vec = j.first \o p.data]
                      [] OTHER -> [k EXCEPT !.vec = @ \o p.data]

into_bytes_step(j, after) ==
    IF j.pc = "reader"
    THEN LET f == reader_fill(j.src) IN
         IF f.out = "err" THEN Returned(j, Fail("Io"))
         ELSE IF f.data = <<>> THEN Returned(j, OkBytes(j.vec))
         ELSE [j EXCEPT !.vec = @ \o f.data]
    ELSE LET p == stream_poll(j.src, after)
             k == [j EXCEPT !.src = p.src, !.overrun = @ \/ p.overrun]
         IN  CASE p.out = "err" -> Returned(k, Fail("Other"))
               [] p.out = "panic" -> Returned(k, [NoRet EXCEPT !.tag = "Panic"])
               [] p.out = "end" ->
                    CASE j.pc = "first" -> [k EXCEPT !.pc = "second", !.first = <<>>]
                      [] j.pc = "second" -> Returned(k, OkBytes(j.first))
                      [] OTHER -> Returned(k, OkBytes(j.vec))
               [] OTHER ->
                    CASE j.pc = "first" -> [k EXCEPT !.pc = "second", !.first = p.data]
                      [] j.pc = "second" ->
                            [k EXCEPT !.pc = "drain", !.vec = j.first \o p.data]
                      [] OTHER -> [k EXCEPT !.vec = @ \o p.data]

\* Body::into_bytes run to its return on a body whose pulls are all ready.
RECURSIVE RunJob(_, _)
RunJob(j, after) ==
    IF j.pc = "ret" THEN j.ret ELSE RunJob(into_bytes_step(j, after), after)

\* impl Stream for Body: poll_next, when the inner source is ready.
End == [NoRet EXCEPT !.tag = "End"]
Item(bytes) == [NoRet EXCEPT !.tag = "Item", !.bytes = bytes]
ItemErr(err) == [NoRet EXCEPT !.tag = "ItemErr", !.err = err]
Panic == [NoRet EXCEPT !.tag = "Panic"]

\* poll_next, the BodyInner::Once arm.
poll_next_once_keeps_buffer(self) ==
    IF self.bytes = <<>> THEN [self |-> self, ret |-> End]
    ELSE [self |-> self, ret |-> Item(self.bytes)]

\* A Once arm that leaves the body Frozen once its chunk is yielded.
poll_next_once_freezes(self) ==
    IF self.bytes = <<>> THEN [self |-> self, ret |-> End]
    ELSE [self |-> frozen, ret |-> Item(self.bytes)]

poll_next_once(self) ==
    IF self.bytes = <<>> THEN [self |-> self, ret |-> End]
    ELSE [self |-> Once(<<>>), ret |-> Item(self.bytes)]

\* poll_next, the BodyInner::Reader arm: *length -= data.len() overflows
\* when the reader delivers more than the declared length.
poll_next_reader(self, overflow) ==
    LET f == reader_fill(self) IN
    IF f.out = "err"
    THEN [self |-> [self EXCEPT !.items = Tail(@)], ret |-> ItemErr("Io")]
    ELSE IF f.data = <<>> THEN [self |-> self, ret |-> End]
    ELSE LET c == reader_consume(self, Len(f.data)) IN
         IF c.length = None
         THEN [self |-> c, ret |-> Item(f.data)]
         ELSE IF c.length[1] >= Len(f.data)
         THEN [self |-> [c EXCEPT !.length = Some(@[1] - Len(f.data))],
               ret |-> Item(f.data)]
         ELSE IF overflow = "panic"
         THEN [self |-> c, ret |-> Panic]
         ELSE [self |-> [c EXCEPT !.length =
                            Some(@[1] - Len(f.data) + UsizeModulus)],
               ret |-> Item(f.data)]

poll_next(self, after, overflow) ==
    CASE self.kind = "Once" -> poll_next_once(self)
      [] self.kind = "Reader" -> poll_next_reader(self, overflow)
      [] self.kind = "Stream" ->
            LET p == stream_poll(self, after) IN
            [self |-> p.src,
             ret |-> CASE p.out = "err" -> ItemErr("Other")
                       [] p.out = "panic" -> Panic
                       [] p.out = "end" -> End
                       [] OTHER -> Item(p.data)]
      [] OTHER -> [self |-> self, ret |-> ItemErr("BodyFrozen")]

(***************************************************************************)
(* Body engine: the two handles and the calls made on them                 *)
(***************************************************************************)

Handle == {"body", "other"}

Peer(h) == IF h = "body" THEN "other" ELSE "body"

\* The owned Body other is absent once it has been moved out.
Present(h) == h = "body" \/ other # None

Get(h) == IF h = "body" THEN body ELSE other[1]

Pending == NoRet

\* The codecs: Request/Response/Body::into_json and into_form.
Codecs == {"into_json", "into_form"}

\* What the Content-Type header of the owner of the body declares ("" when
\* the header is absent).
ContentTypes == {"", "application/json", "application/x-www-form-urlencoded"}

\* The payloads the target type deserializes from: serde_json::from_slice
\* and serde_urlencoded::from_bytes accept some byte strings and reject the
\* others.
WellFormed(codec) ==
    IF codec = "into_json" THEN {<<1, 2>>, <<1, 2, 3>>} ELSE {<<>>, <<1>>, <<1, 2, 3>>}

\* Ok(serde_json::from_slice(data)?) / Ok(serde_urlencoded::from_bytes(data)?)
\* applied to what as_bytes returned: the value borrows from the bytes.
decode(codec, ret) ==
    IF ret.tag # "Ok" THEN ret
    ELSE IF ret.bytes \in WellFormed(codec) THEN [OkBytes(ret.bytes) EXCEPT !.flag = TRUE]
    ELSE IF codec = "into_json" THEN Fail("JsonError")
    ELSE Fail("DeserializeForm")

\* Bytes as UTF-8 sees them: a byte that is a character by itself, the
\* first byte of a two-byte character, and a continuation byte.
AsciiBytes == {1}
LeadBytes == {2}
ContinuationBytes == {3}

RECURSIVE ValidUtf8(_)
\* core::str::from_utf8's verdict: the bytes are a sequence of characters.
ValidUtf8(bytes) ==
    IF bytes = <<>> THEN TRUE
    ELSE IF bytes[1] \in AsciiBytes THEN ValidUtf8(Tail(bytes))
    ELSE IF bytes[1] \in LeadBytes
         THEN /\ Len(bytes) >= 2
              /\ bytes[2] \in ContinuationBytes
              /\ ValidUtf8(SubSeq(bytes, 3, Len(bytes)))
    ELSE FALSE

\* A conversion that takes any bytes for text.
from_utf8_unchecked(ret) ==
    IF ret.tag # "Ok" THEN ret ELSE [OkBytes(ret.bytes) EXCEPT !.flag = TRUE]

\* Ok(ByteStr::from_utf8(self.into_bytes().await?)?): the text over the same
\* bytes, or Error::Utf8.
from_utf8(ret) ==
    IF ret.tag # "Ok" THEN ret
    ELSE IF ValidUtf8(ret.bytes) THEN [OkBytes(ret.bytes) EXCEPT !.flag = TRUE]
    ELSE Fail("Utf8")

\* The calls that read a body into a string: Body::into_string, and
\* Request/Response::into_string.
StringOps == {"into_string", "owner_into_string"}

\* Request/Response::into_bytes and into_string.
OwnerOps == {"owner_into_bytes", "owner_into_string"}

\* What the call op returns when its into_bytes has returned ret.
Finish(op, ret) ==
    IF op \in Codecs THEN decode(op, ret)
    ELSE IF op \in StringOps THEN from_utf8(ret)
    ELSE ret

\* The record of a call: the operation, the handle it is called on, that
\* handle's and the other handle's value before the call, the Body passed in,
\* and what the call returned; before, what the call before it returned
\* if that was a poll_next on the same handle too ("" otherwise); ctype, the
\* content type declared when a codec is called.
\* mark[h]: "fresh" (constructed or installed by replace), "taken" (emptied
\* by a successful take), "froze" (emptied by freeze), "swapped" (exchanged by
\* a successful swap), "as_bytes" (materialized by as_bytes), "into" (read
\* whole through its owner), "moved" (absent).
Op(op, h, arg, ret) ==
    [op |-> op, target |-> h, pre |-> Some(Get(h)),
     peer |-> IF Present(Peer(h)) THEN Some(Get(Peer(h))) ELSE None,
     was |-> mark[h], arg |-> arg, ret |-> ret, before |-> "",
     ctype |-> ""]

NoOp == [op |-> "init", target |-> "", pre |-> None, peer |-> None, was |-> "",
         arg |-> None, ret |-> NoRet, before |-> "", ctype |-> ""]

\* The handle h gets the value v, the other handle stays.
Store(h, v) ==
    IF h = "body" THEN body' = v /\ other' = other
    ELSE other' = Some(v) /\ body' = body

\* A Request/Response holding any constructed Body; the caller holds no
\* other Body yet.  The App is not looked at.
BodyInit ==
    /\ body \in BodyPool
    /\ other = None
    /\ job = Idle
    /\ mark = [body |-> "fresh", other |-> "moved"]
    /\ last = NoOp
    /\ view = None
    /\ rd = None
    /\ calls = None
    /\ ext = None
    /\ middlewares = <<>>
    /\ endpoint = "unit"
    /\ phase = "build"
    /\ stack = <<>>
    /\ result = NoResult
    /\ trace = <<>>

\* let other = Body::from_bytes(..) / from_reader(..) / from_stream(..) /
\* empty() / frozen()
NewOther(b) ==
    /\ job = Idle
    /\ other = None
    /\ other' = Some(b)
    /\ last' = [NoOp EXCEPT !.op = "new", !.target = "other", !.arg = Some(b)]
    /\ mark' = [mark EXCEPT !.other = "fresh"]
    /\ UNCHANGED <<body, job>>
    /\ UNCHANGED <<chainVars, viewVars, calls, ext>>

\* h.take(); a Body taken out of the request is kept by the caller as other.
CallTake(h) ==
    /\ job = Idle
    /\ Present(h)
    /\ LET r == take(Get(h)) IN
        /\ last' = Op("take", h, None, r.ret)
        /\ IF h = "body"
           THEN /\ body' = r.self
                /\ other' = IF r.ret.tag = "Ok" THEN r.ret.body ELSE other
           ELSE Store(h, r.self)
        /\ mark' = IF r.ret.tag # "Ok" THEN mark
                   ELSE IF h = "body" THEN [body |-> "taken", other |-> "fresh"]
                   ELSE [mark EXCEPT !.other = "taken"]
    /\ UNCHANGED job
    /\ UNCHANGED <<chainVars, viewVars, calls, ext>>

\* h.swap(&mut peer)
CallSwap(h) ==
    /\ job = Idle
    /\ other # None
    /\ LET r == swap(Get(h), Get(Peer(h))) IN
        /\ last' = Op("swap", h, None, r.ret)
        /\ IF h = "body"
           THEN body' = r.self /\ other' = Some(r.other)
           ELSE other' = Some(r.self) /\ body' = r.other
        /\ mark' = IF r.ret.tag # "Ok" THEN mark
                   ELSE [body |-> "swapped", other |-> "swapped"]
    /\ UNCHANGED job
    /\ UNCHANGED <<chainVars, viewVars, calls, ext>>

\* h.replace(new); the returned Body is dropped by the caller.
CallReplace(h, new) ==
    /\ job = Idle
    /\ Present(h)
    /\ LET r == replace(Get(h), new) IN
        /\ last' = Op("replace", h, Some(new), r.ret)
        /\ Store(h, r.self)
    /\ mark' = [mark EXCEPT ![h] = "fresh"]
    /\ UNCHANGED job
    /\ UNCHANGED <<chainVars, viewVars, calls, ext>>

\* h.freeze()
CallFreeze(h) ==
    /\ job = Idle
    /\ Present(h)
    /\ LET r == freeze(Get(h)) IN
        /\ last' = Op("freeze", h, None, r.ret)
        /\ Store(h, r.self)
    /\ mark' = [mark EXCEPT ![h] = "froze"]
    /\ UNCHANGED job
    /\ UNCHANGED <<chainVars, viewVars, calls, ext>>

\* h.is_frozen()
CallIsFrozen(h) ==
    /\ job = Idle
    /\ Present(h)
    /\ last' = Op("is_frozen", h, None, Value(is_frozen(Get(h))))
    /\ UNCHANGED <<body, other, job, mark>>
    /\ UNCHANGED <<chainVars, viewVars, calls, ext>>

\* h.len()
CallLen(h) ==
    /\ job = Idle
    /\ Present(h)
    /\ last' = Op("len", h, None, Size(len(Get(h))))
    /\ UNCHANGED <<body, other, job, mark>>
    /\ UNCHANGED <<chainVars, viewVars, calls, ext>>

\* h.poll_next(cx) returning Ready
CallPollNext(h, after, overflow) ==
    /\ job = Idle
    /\ Present(h)
    /\ LET r == poll_next(Get(h), after, overflow) IN
        /\ last' = [Op("poll_next", h, None, r.ret) EXCEPT
                        !.before = IF last.op = "poll_next" /\ last.target = h
                                   THEN last.ret.tag ELSE ""]
        /\ Store(h, r.self)
    /\ UNCHANGED <<job, mark>>
    /\ UNCHANGED <<chainVars, viewVars, calls, ext>>

\* The into_bytes future j has returned: as_bytes stores Once(bytes) into the
\* handle it was called on, and hands the failure on otherwise.
Settle_drops_bytes(j) ==
    /\ last' = [last EXCEPT !.ret = Finish(last.op, j.ret)]
    /\ job' = Idle
    /\ UNCHANGED <<body, other>>

\* An as_bytes that puts the Body it took back when reading it fails.
Settle_restores(j) ==
    /\ last' = [last EXCEPT !.ret = Finish(last.op, j.ret)]
    /\ job' = Idle
    /\ IF j.via = "as_bytes"
       THEN Store(j.target, IF j.ret.tag = "Ok" THEN Once(j.ret.bytes) ELSE last.pre[1])
       ELSE UNCHANGED <<body, other>>

Settle(j) ==
    /\ last' = [last EXCEPT !.ret = Finish(last.op, j.ret)]
    /\ job' = Idle
    /\ IF j.via = "as_bytes" /\ j.ret.tag = "Ok"
       THEN Store(j.target, Once(j.ret.bytes))
       ELSE UNCHANGED <<body, other>>

\* other.into_bytes(): other is moved into the call.
CallIntoBytes ==
    /\ job = Idle
    /\ other # None
    /\ LET j == [into_bytes_begin(other[1]) EXCEPT !.via = "into_bytes", !.target = "other"]
       IN  /\ last' = Op("into_bytes", "other", None, IF j.pc = "ret" THEN j.ret ELSE Pending)
           /\ other' = None
           /\ job' = IF j.pc = "ret" THEN Idle ELSE j
    /\ mark' = [mark EXCEPT !.other = "moved"]
    /\ UNCHANGED body
    /\ UNCHANGED <<chainVars, viewVars, calls, ext>>

\* other.into_string(): other is moved into the call.
CallIntoString ==
    /\ job = Idle
    /\ other # None
    /\ LET j == [into_bytes_begin(other[1]) EXCEPT !.via = "into_string", !.target = "other"]
       IN  /\ last' = Op("into_string", "other", None,
                         IF j.pc = "ret" THEN Finish("into_string", j.ret) ELSE Pending)
           /\ other' = None
           /\ job' = IF j.pc = "ret" THEN Idle ELSE j
    /\ mark' = [mark EXCEPT !.other = "moved"]
    /\ UNCHANGED body
    /\ UNCHANGED <<chainVars, viewVars, calls, ext>>

\* An owner that reads its body where it is.
OwnerBeginInPlace(self) == [self |-> self, job |-> into_bytes_begin(self)]

\* self.take_body()?.into_bytes() up to the first await: the body field is
\* left Frozen and the taken Body is read; a Frozen field returns at once.
OwnerBegin(self) ==
    LET t == take(self) IN
    IF t.ret.tag # "Ok"
    THEN [self |-> t.self, job |-> Returned(Idle, t.ret)]
    ELSE [self |-> t.self, job |-> into_bytes_begin(t.ret.body[1])]

\* request.into_bytes() / request.into_string() (and the same on a
\* Response): body is the owner's body field.
OwnerInto(op) ==
    /\ job = Idle
    /\ LET b == OwnerBegin(body)
           j == [b.job EXCEPT !.via = op, !.target = "body"]
       IN  /\ last' = Op(op, "body", None,
                         IF j.pc = "ret" THEN Finish(op, j.ret) ELSE Pending)
           /\ body' = b.self
           /\ job' = IF j.pc = "ret" THEN Idle ELSE j
    /\ mark' = [mark EXCEPT !.body = "into"]
    /\ UNCHANGED other
    /\ UNCHANGED <<chainVars, viewVars, calls, ext>>

\* h.as_bytes(): self.inner = Once(self.take()?.into_bytes().await?), called
\* as op (as_bytes itself, or a codec) with the content type declared.
AsBytes(h, op, declared) ==
    /\ LET t == take(Get(h))
           rec == [Op(op, h, None, Pending) EXCEPT !.ctype = declared]
       IN
        IF t.ret.tag # "Ok"
        THEN /\ last' = [rec EXCEPT !.ret = t.ret]
             /\ Store(h, t.self)
             /\ UNCHANGED <<job, mark>>
        ELSE LET j == [into_bytes_begin(t.ret.body[1]) EXCEPT
                            !.via = "as_bytes", !.target = h]
             IN  /\ mark' = [mark EXCEPT ![h] = "as_bytes"]
                 /\ IF j.pc = "ret"
                    THEN /\ last' = [rec EXCEPT !.ret = Finish(op, j.ret)]
                         /\ Store(h, IF j.ret.tag = "Ok" THEN Once(j.ret.bytes)
                                     ELSE t.self)
                         /\ UNCHANGED job
                    ELSE /\ last' = rec
                         /\ Store(h, t.self)
                         /\ job' = j
    /\ UNCHANGED <<chainVars, viewVars, calls, ext>>

\* h.as_bytes()
CallAsBytes(h) ==
    /\ job = Idle
    /\ Present(h)
    /\ AsBytes(h, "as_bytes", "")

\* h.into_json() / h.into_form(), the owner of h declaring the content type
\* declared: let data = self.as_bytes().await?; Ok(from_slice(data)?)
CallDecode(h, codec, declared) ==
    /\ job = Idle
    /\ Present(h)
    /\ AsBytes(h, codec, declared)

\* The future in flight is polled and its reader or stream is ready.
JobStep(after) ==
    /\ job.pc \notin {"idle", "ret"}
    /\ job.pc = "reader" => Len(job.vec) <= MaxVec
    /\ LET j == into_bytes_step(job, after) IN
        IF j.pc = "ret"
        THEN Settle(j)
        ELSE /\ job' = j
             /\ UNCHANGED <<body, other, last>>
    /\ UNCHANGED mark
    /\ UNCHANGED <<chainVars, viewVars, calls, ext>>

\* The future in flight is dropped before it completes.
JobCancel ==
    /\ job.pc \notin {"idle", "ret"}
    /\ job' = Idle
    /\ last' = [last EXCEPT !.ret = [NoRet EXCEPT !.tag = "Dropped"]]
    /\ UNCHANGED <<body, other, mark>>
    /\ UNCHANGED <<chainVars, viewVars, calls, ext>>

BodyNext ==
    \/ \E b \in BodyPool : NewOther(b)
    \/ \E h \in Handle : CallTake(h)
    \/ \E h \in Handle : CallSwap(h)
    \/ \E h \in Handle, new \in ReplacePool : CallReplace(h, new)
    \/ \E h \in Handle : CallFreeze(h)
    \/ \E h \in Handle : CallIsFrozen(h)
    \/ \E h \in Handle : CallLen(h)
    \/ \E h \in Handle, after \in AfterEnd, overflow \in Overflow :
            CallPollNext(h, after, overflow)
    \/ CallIntoBytes
    \/ \E h \in Handle : CallAsBytes(h)
    \/ \E after \in AfterEnd : JobStep(after)
    \/ JobCancel

SpecBody == BodyInit /\ [][BodyNext]_vars

\* A Request/Response whose body is decoded with a codec and read, streamed
\* or taken before and after.
DecodeNext ==
    \/ \E h \in Handle, codec \in Codecs, declared \in ContentTypes :
            CallDecode(h, codec, declared)
    \/ \E h \in Handle : CallTake(h)
    \/ \E h \in Handle, after \in AfterEnd, overflow \in Overflow :
            CallPollNext(h, after, overflow)
    \/ CallIntoBytes
    \/ \E after \in AfterEnd : JobStep(after)
    \/ JobCancel

SpecDecode == BodyInit /\ [][DecodeNext]_vars

\* A Request/Response whose body is read whole through the owner, taken and
\* replaced, and Bodies read whole on their own.
OwnerNext ==
    \/ \E op \in OwnerOps : OwnerInto(op)
    \/ \E h \in Handle : CallTake(h)
    \/ \E h \in Handle, new \in ReplacePool : CallReplace(h, new)
    \/ CallIntoBytes
    \/ CallIntoString
    \/ \E after \in AfterEnd : JobStep(after)
    \/ JobCancel

SpecOwner == BodyInit /\ [][OwnerNext]_vars

-----------------------------------------------------------------------------
(***************************************************************************)
(* Reader view: IntoAsyncRead                                              *)
(***************************************************************************)

\* Largest read_buf handed to poll_read, and largest amount consumed at once.
MaxRead == 2

Min(a, b) == IF a <= b THEN a ELSE b

\* The first n bytes of bytes, and what is left after them.
Front(bytes, n) == SubSeq(bytes, 1, Min(n, Len(bytes)))
Rest(bytes, n) == SubSeq(bytes, Min(n, Len(bytes)) + 1, Len(bytes))

\* enum IntoAsyncRead.  Once(Reader<Bytes>) with the bytes not yet read;
\* Reader(reader); Stream { stream: Option<BoxStream>, buf } with the bytes
\* of the current chunk not yet read; Freeze.  "None" is no view made yet,
\* "Panicked" a view whose call unwound.
NoView == [kind |-> "None", buf |-> <<>>, src |-> None]
ViewOnce(data) == [kind |-> "Once", buf |-> data, src |-> None]
ViewReader(reader) == [kind |-> "Reader", buf |-> <<>>, src |-> Some(reader)]
ViewStream(stream, buf) == [kind |-> "Stream", buf |-> buf, src |-> stream]
ViewFreeze == [kind |-> "Freeze", buf |-> <<>>, src |-> None]
Panicked(v) == [v EXCEPT !.kind = "Panicked"]

\* IntoAsyncRead::new
IntoAsyncReadNew(b) ==
    CASE b.kind = "Once" -> ViewOnce(b.bytes)
      [] b.kind = "Reader" -> ViewReader(b)
      [] b.kind = "Stream" -> ViewStream(Some(b), <<>>)
      [] OTHER -> ViewFreeze

\* Body::into_reader
into_reader(self) == IntoAsyncReadNew(self)

\* poll_data, when the stream is ready: pulls lists what each poll of the
\* stream returned, in order ("after" for a poll of a stream that had
\* already signalled its end).
RECURSIVE poll_data_keeps_stream(_, _)
poll_data_keeps_stream(v, after) ==
    IF v.src = None \/ v.buf # <<>>
    THEN [view |-> v, out |-> "ok", pulls |-> <<>>]
    ELSE LET p == stream_poll(v.src[1], after)
             w == [v EXCEPT !.src = Some(p.src)]
         IN  CASE p.overrun /\ p.out = "panic" ->
                    [view |-> Panicked(w), out |-> "panic", pulls |-> <<"after">>]
               [] p.overrun -> [view |-> w, out |-> "ok", pulls |-> <<"after">>]
               [] p.out = "err" -> [view |-> w, out |-> "err", pulls |-> <<"err">>]
               [] p.out = "end" -> [view |-> w, out |-> "ok", pulls |-> <<"end">>]
               [] p.data = <<>> ->
                    LET r == poll_data_keeps_stream(w, after)
                    IN  [r EXCEPT !.pulls = <<"empty">> \o @]
               [] OTHER ->
                    [view |-> [w EXCEPT !.buf = p.data], out |-> "ok",
                     pulls |-> <<"data">>]

RECURSIVE poll_data(_, _)
poll_data(v, after) ==
    IF v.src = None \/ v.buf # <<>>
    THEN [view |-> v, out |-> "ok", pulls |-> <<>>]
    ELSE LET p == stream_poll(v.src[1], after)
             w == [v EXCEPT !.src = Some(p.src)]
         IN  CASE p.overrun /\ p.out = "panic" ->
                    [view |-> Panicked(w), out |-> "panic", pulls |-> <<"after">>]
               [] p.overrun ->
                    [view |-> [w EXCEPT !.src = None], out |-> "ok", pulls |-> <<"after">>]
               [] p.out = "err" -> [view |-> w, out |-> "err", pulls |-> <<"err">>]
               [] p.out = "end" ->
                    [view |-> [w EXCEPT !.src = None], out |-> "ok", pulls |-> <<"end">>]
               [] p.data = <<>> ->
                    LET r == poll_data(w, after)
                    IN  [r EXCEPT !.pulls = <<"empty">> \o @]
               [] OTHER ->
                    [view |-> [w EXCEPT !.buf = p.data], out |-> "ok",
                     pulls |-> <<"data">>]

\* io::Error::new(io::ErrorKind::Other, ..)
IoOther == Fail("Other")

\* <IntoAsyncRead as AsyncRead>::poll_read with a read_buf of n bytes, when
\* the source is ready.
poll_read(v, n, after) ==
    CASE v.kind = "Once" ->
            [view |-> [v EXCEPT !.buf = Rest(@, n)], ret |-> OkBytes(Front(v.buf, n)),
             pulls |-> <<>>]
      [] v.kind = "Reader" ->
            LET f == reader_fill(v.src[1]) IN
            IF f.out = "err"
            THEN [view |-> [v EXCEPT !.src = Some([v.src[1] EXCEPT !.items = Tail(@)])],
                  ret |-> Fail("Io"), pulls |-> <<>>]
            ELSE [view |-> [v EXCEPT !.src =
                                Some(reader_consume(v.src[1], Min(n, Len(f.data))))],
                  ret |-> OkBytes(Front(f.data, n)), pulls |-> <<>>]
      [] v.kind = "Stream" ->
            LET d == poll_data(v, after) IN
            CASE d.out = "panic" -> [view |-> d.view, ret |-> Panic, pulls |-> d.pulls]
              [] d.out = "err" -> [view |-> d.view, ret |-> IoOther, pulls |-> d.pulls]
              [] OTHER ->
                    [view |-> [d.view EXCEPT !.buf = Rest(@, n)],
                     ret |-> OkBytes(Front(d.view.buf, n)), pulls |-> d.pulls]
      [] OTHER -> [view |-> v, ret |-> IoOther, pulls |-> <<>>]

\* <IntoAsyncRead as AsyncBufRead>::poll_fill_buf, when the source is ready.
poll_fill_buf(v, after) ==
    CASE v.kind = "Once" -> [view |-> v, ret |-> OkBytes(v.buf), pulls |-> <<>>]
      [] v.kind = "Reader" ->
            LET f == reader_fill(v.src[1]) IN
            IF f.out = "err"
            THEN [view |-> [v EXCEPT !.src = Some([v.src[1] EXCEPT !.items = Tail(@)])],
                  ret |-> Fail("Io"), pulls |-> <<>>]
            ELSE [view |-> v, ret |-> OkBytes(f.data), pulls |-> <<>>]
      [] v.kind = "Stream" ->
            LET d == poll_data(v, after) IN
            CASE d.out = "panic" -> [view |-> d.view, ret |-> Panic, pulls |-> d.pulls]
              [] d.out = "err" -> [view |-> d.view, ret |-> IoOther, pulls |-> d.pulls]
              [] OTHER -> [view |-> d.view, ret |-> OkBytes(d.view.buf), pulls |-> d.pulls]
      [] OTHER -> [view |-> v, ret |-> IoOther, pulls |-> <<>>]

\* The bytes a fill_buf would hand out without polling anything: what
\* consume may be called with.
Buffered(v) ==
    IF v.kind = "Reader"
    THEN LET f == reader_fill(v.src[1]) IN IF f.out = "err" THEN <<>> ELSE f.data
    ELSE v.buf

\* <IntoAsyncRead as AsyncBufRead>::consume
consume(v, amt) ==
    CASE v.kind \in {"Once", "Stream"} -> [v EXCEPT !.buf = Rest(@, amt)]
      [] v.kind = "Reader" -> [v EXCEPT !.src = Some(reader_consume(v.src[1], amt))]
      [] OTHER -> v

\* The record of the calls on the view: the last call, its size argument
\* and what it returned; got, the bytes handed out by poll_read or released
\* by consume so far; pulls, every poll the view made of its stream, and
\* polled, how many of them the last call made; orig, the Body the view was
\* made of.
NoRead ==
    [op |-> "none", n |-> 0, ret |-> NoRet, got |-> <<>>, pulls |-> <<>>, polled |-> 0,
     orig |-> None]

\* The caller owns a Body of any variant (constructed, or taken out of a
\* Request/Response, whose handle is then Frozen); no view is made yet.  The
\* App is not looked at.
ViewInit ==
    /\ other \in {Some(b) : b \in BodyPool}
    /\ body = frozen
    /\ view = NoView
    /\ rd = NoRead
    /\ calls = None
    /\ ext = None
    /\ job = Idle
    /\ mark = [body |-> "taken", other |-> "fresh"]
    /\ last = NoOp
    /\ middlewares = <<>>
    /\ endpoint = "unit"
    /\ phase = "build"
    /\ stack = <<>>
    /\ result = NoResult
    /\ trace = <<>>

\* other.poll_next(cx) returning Ready, before the view is made.
PollBefore(after, overflow) ==
    /\ other # None
    /\ LET r == poll_next(other[1], after, overflow) IN
        /\ r.ret.tag # "Panic"
        /\ other' = Some(r.self)
        /\ last' = [Op("poll_next", "other", None, r.ret) EXCEPT
                        !.before = IF last.op = "poll_next" THEN last.ret.tag ELSE ""]
    /\ UNCHANGED <<body, job, mark, view, rd>>
    /\ UNCHANGED <<chainVars, calls, ext>>

\* let view = other.into_reader(): other is moved into the view.
CallIntoReader ==
    /\ other # None
    /\ view' = into_reader(other[1])
    /\ rd' = [NoRead EXCEPT !.op = "into_reader", !.orig = other]
    /\ other' = None
    /\ mark' = [mark EXCEPT !.other = "moved"]
    /\ UNCHANGED <<body, job, last>>
    /\ UNCHANGED <<chainVars, calls, ext>>

Live == view.kind \notin {"None", "Panicked"}

\* view.poll_read(cx, read_buf) returning Ready, read_buf of n bytes.
CallPollRead(n, after) ==
    /\ Live
    /\ LET r == poll_read(view, n, after) IN
        /\ view' = r.view
        /\ rd' = [rd EXCEPT !.op = "poll_read", !.n = n, !.ret = r.ret,
                            !.got = @ \o r.ret.bytes, !.pulls = @ \o r.pulls,
                            !.polled = Len(r.pulls)]
    /\ UNCHANGED bodyVars
    /\ UNCHANGED <<chainVars, calls, ext>>

\* view.poll_fill_buf(cx) returning Ready
CallPollFillBuf(after) ==
    /\ Live
    /\ LET r == poll_fill_buf(view, after) IN
        /\ view' = r.view
        /\ rd' = [rd EXCEPT !.op = "poll_fill_buf", !.n = 0, !.ret = r.ret,
                            !.pulls = @ \o r.pulls, !.polled = Len(r.pulls)]
    /\ UNCHANGED bodyVars
    /\ UNCHANGED <<chainVars, calls, ext>>

\* view.consume(amt), amt no more than the bytes fill_buf handed out.
CallConsume(amt) ==
    /\ Live
    /\ amt <= Len(Buffered(view))
    /\ view' = consume(view, amt)
    /\ rd' = [rd EXCEPT !.op = "consume", !.n = amt, !.ret = OkUnit,
                        !.got = @ \o Front(Buffered(view), amt), !.polled = 0]
    /\ UNCHANGED bodyVars
    /\ UNCHANGED <<chainVars, calls, ext>>

ViewNext ==
    \/ \E after \in AfterEnd, overflow \in Overflow : PollBefore(after, overflow)
    \/ CallIntoReader
    \/ \E n \in 0..MaxRead, after \in AfterEnd : CallPollRead(n, after)
    \/ \E after \in AfterEnd : CallPollFillBuf(after)
    \/ \E amt \in 0..MaxRead : CallConsume(amt)

SpecView == ViewInit /\ [][ViewNext]_vars

-----------------------------------------------------------------------------
(***************************************************************************)
(* Concurrent calls of App::run on one App                                 *)
(***************************************************************************)

\* The two calls.
Calls == {1, 2}

\* The middleware lists of the Apps the calls run on.
AppPool == {<<"A">>, <<"A", "B">>, <<"A", "unit">>}

\* The body of the Request call c is made with: the call's own bytes.
RequestBody(c) == from_bytes(<<c>>)

\* The bodies a handler installs with replace_body: a new buffer, or
\* Body::frozen() (which freezes the request body).
Replacements == {from_bytes(<<3>>), frozen}

\* What the handlers of two interleaved calls do with their request: take
\* the body or freeze it.
FewOps == {<<"take_body", frozen>>, <<"replace_body", frozen>>}

\* What the handlers of a single call do with their request.
AllOps ==
    {<<"take_body", frozen>>, <<"into_bytes", frozen>>}
        \cup {<<"replace_body", new>> : new \in Replacements}

\* Request::take_body
take_body(req) == take(req)

\* A replace_body that hands back the old body and does not install the
\* new one.
replace_body_drops_new(req, new) == [self |-> req, ret |-> OkBody(req)]

\* Request::replace_body
replace_body(req, new) == replace(req, new)

\* Request::into_bytes on a body whose pulls are all ready:
\* self.take_body()?.into_bytes().await
request_into_bytes(req) ==
    LET t == take(req) IN
    IF t.ret.tag # "Ok" THEN [self |-> t.self, ret |-> t.ret]
    ELSE [self |-> t.self, ret |-> RunJob(into_bytes_begin(t.ret.body[1]), "end")]

RequestOp(op, req, new) ==
    CASE op = "take_body" -> take_body(req)
      [] op = "replace_body" -> replace_body(req, new)
      [] OTHER -> request_into_bytes(req)

\* The Request the handlers of call c are handed: App::run owns its request
\* and lends it down the chain.
RequestShared(c) == 1

RequestOf(c) == c

\* History of a call: the handler at pos is entered and finds the body b;
\* it does op on the request; it calls next.run.
Seen(pos, b) ==
    [ev |-> "enter", pos |-> pos, op |-> "", arg |-> None, body |-> b, ret |-> NoRet]
Did(pos, op, arg, pre, ret) ==
    [ev |-> "op", pos |-> pos, op |-> op, arg |-> arg, body |-> pre, ret |-> ret]
Fwd(pos, b) ==
    [ev |-> "call", pos |-> pos, op |-> "", arg |-> None, body |-> b, ret |-> NoRet]

\* A call not yet made: the caller holds the Request.  opped is the set of
\* positions whose handler has already done its operation on the request.
NoCall(c) ==
    [phase |-> "idle", stack |-> <<>>, body |-> RequestBody(c), result |-> NoResult,
     log |-> <<>>, opped |-> {}]

\* One App, built; two requests; no call made yet.
CallsInit ==
    /\ middlewares \in AppPool
    /\ endpoint \in Endpoints
    /\ calls = [c \in Calls |-> NoCall(c)]
    /\ ext = None
    /\ phase = "build"
    /\ stack = <<>>
    /\ result = NoResult
    /\ trace = <<>>
    /\ body = frozen
    /\ other = None
    /\ job = Idle
    /\ mark = [body |-> "fresh", other |-> "moved"]
    /\ last = NoOp
    /\ view = NoView
    /\ rd = NoRead

TopOf(c) == calls[c].stack[Len(calls[c].stack)]

Running(c, kind) ==
    /\ calls[c].phase = "running"
    /\ calls[c].stack # <<>>
    /\ TopOf(c).kind = kind
    /\ TopOf(c).st = "run"

\* Nothing but the calls changes.
OnlyCalls ==
    /\ UNCHANGED chainVars
    /\ UNCHANGED bodyVars
    /\ UNCHANGED viewVars
    /\ UNCHANGED ext

\* App::run(&self, request) of call c.
RunStart(c) ==
    /\ calls[c].phase = "idle"
    /\ LET f == NextRun(NextNew(1)) IN
        calls' = [calls EXCEPT ![c] =
                    [@ EXCEPT !.phase = "running", !.stack = <<f>>,
                              !.log = <<Seen(f.pos, calls[RequestOf(c)].body)>>]]
    /\ OnlyCalls

\* The handler in control in call c does op on its request.
RequestCall(c, op, new) ==
    /\ \E kind \in {"mw", "ep"} : Running(c, kind)
    /\ TopOf(c).handle # "unit"
    /\ TopOf(c).pos \notin calls[c].opped
    /\ TopOf(c).called = 0
    /\ LET q == RequestOf(c)
           r == RequestOp(op, calls[q].body, new)
           arg == IF op = "replace_body" THEN Some(new) ELSE None
           done == [calls EXCEPT ![c] =
                      [@ EXCEPT !.opped = @ \cup {TopOf(c).pos},
                                !.log = Append(@, Did(TopOf(c).pos, op, arg,
                                                      calls[q].body, r.ret))]]
       IN  calls' = [done EXCEPT ![q] = [@ EXCEPT !.body = r.self]]
    /\ OnlyCalls

\* A user middleware in control in call c calls next.run(request).
Forward(c) ==
    /\ Running(c, "mw")
    /\ TopOf(c).handle # "unit"
    /\ TopOf(c).next # Moved
    /\ LET f == NextRun(TopOf(c).next)
           b == calls[RequestOf(c)].body
       IN  calls' = [calls EXCEPT ![c] =
                [@ EXCEPT !.stack = Append([@ EXCEPT ![Len(@)] = ConsumeNext(TopOf(c))], f),
                          !.log = @ \o <<Fwd(TopOf(c).pos, b), Seen(f.pos, b)>>]]
    /\ OnlyCalls

\* What the handler f returns in a call: what its continuation returned if
\* it called it, and otherwise what a middleware or endpoint may return.
Returns(f) ==
    IF f.got # NoResult THEN {f.got}
    ELSE IF f.kind = "mw" THEN MwReturns(f)
    ELSE EpReturns(f)

\* The handler in control in call c returns r to whoever awaited it.
Return(c, r) ==
    /\ \E kind \in {"mw", "ep"} : Running(c, kind)
    /\ r \in Returns(TopOf(c))
    /\ LET rest == SubSeq(calls[c].stack, 1, Len(calls[c].stack) - 1) IN
        calls' = [calls EXCEPT ![c] =
            IF rest = <<>>
            THEN [@ EXCEPT !.stack = <<>>, !.phase = "done", !.result = RunReturn(r)]
            ELSE [@ EXCEPT !.stack =
                    [rest EXCEPT ![Len(rest)] =
                        [@ EXCEPT !.st = "run", !.got = RunReturn(r)]]]]
    /\ OnlyCalls

CallsNext ==
    \/ \E c \in Calls : RunStart(c)
    \/ \E c \in Calls, o \in FewOps : RequestCall(c, o[1], o[2])
    \/ \E c \in Calls : Forward(c)
    \/ \E c \in Calls, r \in AllResults : Return(c, r)

SpecCalls == CallsInit /\ [][CallsNext]_vars

\* One call, whose handlers take, read, replace or freeze the request body.
RequestNext ==
    \/ RunStart(1)
    \/ \E o \in AllOps : RequestCall(1, o[1], o[2])
    \/ Forward(1)
    \/ \E r \in AllResults : Return(1, r)

SpecRequest == CallsInit /\ [][RequestNext]_vars

-----------------------------------------------------------------------------
(***************************************************************************)
(* ResultExt: attaching a status to a failure                              *)
(***************************************************************************)

\* The status arguments passed to status(): below the range of StatusCode,
\* a success code, error codes, a code above the error codes, and a number
\* above the range of StatusCode.
StatusArgs == {99, 200, 404, 599, 600, 1000}

\* cfg!(debug_assertions): the build the crate is compiled in.
Builds == {"debug", "release"}

\* The receivers of status(): Ok(v) and Err(e) of a std Result, Some(v) and
\* None of an Option.
Receivers ==
    [tag : {"Ok", "Some"}, v : {1, 2}, error : {""}]
        \cup [tag : {"Err"}, v : {0}, error : {"io"}]
        \cup [tag : {"None"}, v : {0}, error : {""}]

\* What a call returns: Ok(v), Err(Error { error, status }), or a panic;
\* ExtPending before the call is made.
ExtOk(v) == [tag |-> "Ok", v |-> v, error |-> "", status |-> 0]
ExtErr(error, status) == [tag |-> "Err", v |-> 0, error |-> error, status |-> status]
ExtPanic == [tag |-> "Panic", v |-> 0, error |-> "", status |-> 0]
ExtPending == [tag |-> "Pending", v |-> 0, error |-> "", status |-> 0]

\* status.try_into() for StatusCode: the codes 100..=999 convert.
try_into(status) == IF status >= 100 /\ status <= 999 THEN Some(status) ELSE None

\* Error::new(error, status): status.try_into().unwrap()
ErrorNew(error, status) ==
    IF try_into(status) = None THEN ExtPanic ELSE ExtErr(error, try_into(status)[1])

\* Error::msg(msg): anyhow::Error::msg(msg).into(), through From<E> for
\* Error with SERVICE_UNAVAILABLE.
ErrorMsg(msg) == ErrorNew(msg, StatusErr)

\* Error::set_status(self, status): expect on the conversion, and in a debug
\* build an assert that the code is within 400..=599.
set_status(self, status, build) ==
    IF try_into(status) = None THEN ExtPanic
    ELSE IF build = "debug" /\ ~(status >= 400 /\ status <= 599) THEN ExtPanic
    ELSE [self EXCEPT !.status = try_into(status)[1]]

\* impl ResultExt for Result: self.map_err(|error| Error::new(error, status));
\* the closure runs for Err only.
result_status(self, status) ==
    IF self.tag = "Ok" THEN ExtOk(self.v) ELSE ErrorNew(self.error, status)

\* impl ResultExt for Option:
\* self.ok_or(Error::msg("None Error").set_status(status)); the argument of
\* ok_or is evaluated before ok_or looks at self.
option_status(self, status, build) ==
    LET arg == set_status(ErrorMsg("None Error"), status, build) IN
    IF arg.tag = "Panic" THEN ExtPanic
    ELSE IF self.tag = "Some" THEN ExtOk(self.v)
    ELSE arg

\* A receiver, a status argument and a build; status() not yet called.  The
\* App and the bodies are not looked at.
StatusInit ==
    /\ ext \in [recv : Receivers, status : StatusArgs, build : Builds, ret : {ExtPending}]
    /\ calls = None
    /\ middlewares = <<>>
    /\ endpoint = "unit"
    /\ phase = "build"
    /\ stack = <<>>
    /\ result = NoResult
    /\ trace = <<>>
    /\ body = frozen
    /\ other = None
    /\ job = Idle
    /\ mark = [body |-> "fresh", other |-> "moved"]
    /\ last = NoOp
    /\ view = NoView
    /\ rd = NoRead

OnlyExt ==
    /\ UNCHANGED chainVars
    /\ UNCHANGED bodyVars
    /\ UNCHANGED viewVars
    /\ UNCHANGED calls

\* result.status(s)
CallResultStatus ==
    /\ ext.ret = ExtPending
    /\ ext.recv.tag \in {"Ok", "Err"}
    /\ ext' = [ext EXCEPT !.ret = result_status(ext.recv, ext.status)]
    /\ OnlyExt

\* option.status(s)
CallOptionStatus ==
    /\ ext.ret = ExtPending
    /\ ext.recv.tag \in {"Some", "None"}
    /\ ext' = [ext EXCEPT !.ret = option_status(ext.recv, ext.status, ext.build)]
    /\ OnlyExt

StatusNext ==
    \/ CallResultStatus
    \/ CallOptionStatus

SpecStatus == StatusInit /\ [][StatusNext]_vars

-----------------------------------------------------------------------------
(***************************************************************************)
(* Properties of the chain                                                 *)
(***************************************************************************)

IsEv(i, ev) == i \in DOMAIN trace /\ trace[i].ev = ev

\* The observations of the request (enter) and of the response (post), as
\* <<what, position>> pairs in the order they happened.
Observed ==
    LET obs == SelectSeq(trace, LAMBDA e : e.ev \in {"enter", "post"})
    IN  [i \in DOMAIN obs |-> <<obs[i].ev, obs[i].pos>>]

\* enter 1, ..., enter n, enter endpoint, post n, ..., post 1.
Onion(n) ==
    [i \in 1..(2 * n + 1) |->
        IF i <= n + 1 THEN <<"enter", i>> ELSE <<"post", 2 * n + 2 - i>>]

IsPrefix(s, t) == Len(s) <= Len(t) /\ s = SubSeq(t, 1, Len(s))

NoAbandon == \A i \in DOMAIN trace : trace[i].ev # "abandon"

ForwardedOnce(p) ==
    Cardinality({i \in DOMAIN trace : trace[i].ev = "call" /\ trace[i].pos = p}) = 1

Entered == Cardinality({i \in DOMAIN trace : trace[i].ev = "enter"})

\* C1: when no middleware drops its continuation's future, the handlers that
\* are reached see the request in chain order (positions 1, 2, ..., k) and
\* then the response in exact reverse order (k - 1, ..., 1); once App::run
\* of a chain whose middlewares each forwarded exactly once has returned,
\* the observations are exactly enter 1..n, endpoint, post n..1 (for [A, B]
\* and E: A, B, E, B, A).
C1_OnionOrder ==
    /\ (NoAbandon /\ Entered > 0) => IsPrefix(Observed, Onion(Entered - 1))
    /\ (/\ phase = "done"
        /\ NoAbandon
        /\ \A p \in 1..Len(middlewares) : ForwardedOnce(p))
       => Observed = Onion(Len(middlewares))

C1_Witness ==
    /\ phase = "done"
    /\ middlewares = <<"A", "B">>
    /\ endpoint = "E"
    /\ \A p \in 1..2 : ForwardedOnce(p)
    /\ Observed = <<<<"enter", 1>>, <<"enter", 2>>, <<"enter", 3>>,
                    <<"post", 2>>, <<"post", 1>>>>

\* trace[i] is a middleware returning without ever having invoked its
\* continuation.
ShortCircuit(i) ==
    /\ IsEv(i, "return")
    /\ trace[i].pos <= Len(middlewares)
    /\ ~trace[i].called

NothingLaterRuns(i) ==
    \A j \in DOMAIN trace : trace[j].ev = "enter" => trace[j].pos <= trace[i].pos

\* C2 as stated: after a short-circuit at position i nothing later runs, and
\* every middleware before i receives the short-circuit result itself.
C2_Original ==
    \A i \in DOMAIN trace : ShortCircuit(i) =>
        /\ NothingLaterRuns(i)
        /\ \A j \in DOMAIN trace :
            (j > i /\ trace[j].ev = "post" /\ trace[j].pos < trace[i].pos)
                => trace[j].res = trace[i].res

\* C2 (amended): after a short-circuit at position i nothing later runs; the
\* middleware at position i - 1 (App::run's caller when i = 1) receives the
\* short-circuit result itself, and every earlier middleware receives what
\* its successor returned.
C2_ShortCircuit ==
    \A i \in DOMAIN trace : ShortCircuit(i) =>
        /\ NothingLaterRuns(i)
        /\ IF trace[i].pos = 1
           THEN phase = "done" /\ result = trace[i].res /\ i = Len(trace)
           ELSE /\ IsEv(i + 1, "post")
                /\ trace[i + 1].pos = trace[i].pos - 1
                /\ trace[i + 1].res = trace[i].res
        /\ \A j \in DOMAIN trace :
            (j > i /\ trace[j].ev = "post")
                => /\ trace[j - 1].ev = "return"
                   /\ trace[j - 1].pos = trace[j].pos + 1
                   /\ trace[j].res = trace[j - 1].res

C2_Witness ==
    /\ phase = "done"
    /\ Len(middlewares) = 3
    /\ \E i \in DOMAIN trace :
        /\ ShortCircuit(i)
        /\ trace[i].pos = 3
        /\ \E j \in DOMAIN trace :
            /\ j > i + 1
            /\ trace[j].ev = "post"
            /\ trace[j].pos = 1
            /\ trace[j].res # trace[i].res

\* C3: within one App::run every position of the chain (each middleware and
\* the endpoint) is entered at most once, and a middleware that has called
\* run no longer holds its continuation.
C3_AtMostOnce ==
    /\ \A i, j \in DOMAIN trace :
        (trace[i].ev = "enter" /\ trace[j].ev = "enter" /\ trace[i].pos = trace[j].pos)
            => i = j
    /\ \A k \in DOMAIN stack : stack[k].called > 0 => stack[k].next = Moved

C3_Witness ==
    /\ phase = "done"
    /\ Len(middlewares) = MaxMiddlewares
    /\ ~NoAbandon
    /\ Cardinality({i \in DOMAIN trace : trace[i].ev = "enter"}) = MaxMiddlewares + 1

\* C4: whatever a handler returns reaches the handler that awaited it (the
\* middleware one position earlier, or App::run's caller) unchanged, a
\* failure stays a failure and a response a response, and once a handler
\* has failed no further handler is entered.
C4_FailurePropagates ==
    \A i \in DOMAIN trace : trace[i].ev = "return" =>
        /\ IF i = Len(trace)
           THEN phase = "done" /\ trace[i].pos = 1 /\ result = trace[i].res
           ELSE /\ trace[i + 1].ev = "post"
                /\ trace[i + 1].pos = trace[i].pos - 1
                /\ trace[i + 1].res = trace[i].res
        /\ trace[i].res.tag = "Err" =>
            \A j \in DOMAIN trace : j > i => trace[j].ev # "enter"

C4_Witness ==
    /\ phase = "done"
    /\ Len(middlewares) >= 2
    /\ result = Err(EndpointPos, StatusErr)
    /\ NoAbandon

-----------------------------------------------------------------------------
(***************************************************************************)
(* Properties of the Body engine                                           *)
(***************************************************************************)

\* The last call was op, and it has returned.
Called(op) == last.op = op /\ last.ret.tag \notin {"None", "Dropped"}

Target == Get(last.target)

\* The handle the last call was not made on, when there is one.
PeerNow == IF Present(Peer(last.target)) THEN Some(Get(Peer(last.target))) ELSE None

\* C5: take() on a Body that is not Frozen succeeds, returns the value the
\* handle held and leaves the handle Frozen; from then on (until a new value
\* is installed in it) the handle is Frozen, and a take() or a swap() called
\* on it fails with BodyFrozen.
C5_TakeOnce ==
    /\ (Called("take") /\ ~is_frozen(last.pre[1]))
        => /\ last.ret = OkBody(last.pre[1])
           /\ is_frozen(Target)
           /\ mark[last.target] = "taken"
    /\ \A h \in Handle : mark[h] = "taken" => Present(h) /\ is_frozen(Get(h))
    /\ ((Called("take") \/ Called("swap")) /\ last.was = "taken")
        => /\ last.ret = BodyFrozen
           /\ is_frozen(Target)

C5_Witness ==
    /\ Called("take")
    /\ last.target = "body"
    /\ last.was = "taken"
    /\ last.ret = BodyFrozen
    /\ other # None
    /\ ~is_frozen(other[1])

\* The last call left its target non-Frozen although it was Frozen before.
UnfrozenTarget ==
    /\ last.pre # None
    /\ is_frozen(last.pre[1])
    /\ Present(last.target)
    /\ ~is_frozen(Target)

\* The last call left the other handle non-Frozen although it was Frozen
\* before (a take on body binds other anew, which is not counted).
UnfrozenPeer ==
    /\ last.peer # None
    /\ is_frozen(last.peer[1])
    /\ last.op # "take"
    /\ PeerNow # None
    /\ ~is_frozen(PeerNow[1])

\* C6 as stated: a Frozen handle becomes non-Frozen only by a replace called
\* on it.
C6_Original ==
    /\ UnfrozenTarget => last.op = "replace"
    /\ ~UnfrozenPeer

\* C6 (amended): a Frozen handle stays Frozen under take, swap called on it,
\* freeze, as_bytes, is_frozen, len and stream polling; it becomes non-Frozen
\* only by a replace called on it, or by a successful swap called on another,
\* non-Frozen Body with it as the argument.
C6_FrozenUntilInstalled ==
    /\ UnfrozenTarget => Called("replace") /\ Target = last.arg[1]
    /\ UnfrozenPeer
        => /\ Called("swap")
           /\ last.ret = OkUnit
           /\ ~is_frozen(last.pre[1])
           /\ PeerNow = last.pre

C6_Witness ==
    /\ UnfrozenPeer
    /\ Called("swap")
    /\ is_frozen(Target)

\* C7: a take() or swap() that fails changes neither the handle it was called
\* on nor the other handle.
C7_FailedCallKeepsState ==
    ((Called("take") \/ Called("swap")) /\ last.ret.tag = "Err")
        => /\ Some(Target) = last.pre
           /\ PeerNow = last.peer
           /\ mark[last.target] = last.was

C7_Witness ==
    /\ Called("swap")
    /\ last.ret = BodyFrozen
    /\ last.peer # None
    /\ ~is_frozen(last.peer[1])
    /\ PeerNow = last.peer

\* C8 as stated: swap fails with BodyFrozen if self or other is Frozen, and
\* exchanges the two values otherwise.
C8_Original ==
    Called("swap") =>
        IF is_frozen(last.pre[1]) \/ is_frozen(last.peer[1])
        THEN last.ret = BodyFrozen
        ELSE last.ret = OkUnit /\ Some(Target) = last.peer /\ PeerNow = last.pre

\* C8 (amended): swap fails with BodyFrozen exactly when self is Frozen;
\* otherwise, also when other is Frozen, it exchanges the two values exactly.
C8_SwapChecksSelf ==
    Called("swap") =>
        IF is_frozen(last.pre[1])
        THEN last.ret = BodyFrozen
        ELSE last.ret = OkUnit /\ Some(Target) = last.peer /\ PeerNow = last.pre

C8_Witness ==
    /\ Called("swap")
    /\ ~is_frozen(last.pre[1])
    /\ is_frozen(last.peer[1])
    /\ last.ret = OkUnit
    /\ is_frozen(Target)

\* C9: replace(new) succeeds in every state, Frozen included: the handle then
\* holds new, and the returned Body is the value the handle held before.
C9_Replace ==
    Called("replace") =>
        /\ last.ret = OkBody(last.pre[1])
        /\ Some(Target) = last.arg

C9_Witness ==
    /\ Called("replace")
    /\ is_frozen(last.pre[1])
    /\ ~is_frozen(Target)
    /\ last.ret = OkBody(frozen)

\* C10: after freeze() the handle is Frozen whatever it held: is_frozen() on
\* it is true and into_bytes() of it fails with BodyFrozen; freeze() on a
\* handle already frozen by freeze() returns normally and leaves the state
\* one freeze() left.
C10_Freeze ==
    /\ Called("freeze") => last.ret = OkUnit /\ Target = frozen
    /\ \A h \in Handle : mark[h] = "froze" => Present(h) /\ Get(h) = frozen
    /\ (Called("is_frozen") /\ last.was = "froze") => last.ret = Value(TRUE)
    /\ (Called("into_bytes") /\ last.was = "froze") => last.ret = BodyFrozen
    /\ (Called("freeze") /\ last.was = "froze") => Some(Target) = last.pre

C10_Witness ==
    /\ Called("into_bytes")
    /\ last.was = "froze"
    /\ last.ret = BodyFrozen

-----------------------------------------------------------------------------
(***************************************************************************)
(* Properties of the conversions to bytes                                  *)
(***************************************************************************)

\* C11: into_bytes of from_bytes(b) succeeds and returns exactly b, for every
\* buffer b, the empty one included.
C11_BufferRoundTrip ==
    (Called("into_bytes") /\ last.pre[1].kind = "Once")
        => /\ last.pre[1] = from_bytes(last.pre[1].bytes)
           /\ last.ret = OkBytes(last.pre[1].bytes)

C11_Witness ==
    /\ Called("into_bytes")
    /\ last.was = "fresh"
    /\ last.pre = Some(from_bytes(<<1, 2>>))
    /\ last.ret = OkBytes(<<1, 2>>)

\* The bytes of the chunks items delivers, in order.
RECURSIVE Bytes(_)
Bytes(items) ==
    IF items = <<>> THEN <<>> ELSE Head(items).data \o Bytes(Tail(items))

NoFailure(items) == \A i \in DOMAIN items : ~items[i].err

\* C12: into_bytes of a chunk sequence that delivers the chunks c1..cn
\* (n >= 1, no failure) and then its end returns c1 + ... + cn in arrival
\* order; for n = 1 that is c1 itself.
C12_ChunksConcatenated ==
    (/\ Called("into_bytes")
     /\ last.pre[1].kind = "Stream"
     /\ last.pre[1].items # <<>>
     /\ NoFailure(last.pre[1].items))
        => /\ last.ret = OkBytes(Bytes(last.pre[1].items))
           /\ Len(last.pre[1].items) = 1
                => last.ret = OkBytes(last.pre[1].items[1].data)

C12_Witness ==
    /\ Called("into_bytes")
    /\ last.pre = Some(from_stream(<<Chunk(<<1>>), Chunk(<<>>), Chunk(<<2>>), Chunk(<<3>>)>>))
    /\ last.ret = OkBytes(<<1, 2, 3>>)

\* C13: into_bytes on a Reader body copies each byte of the source once:
\* what it has collected is always a prefix of the source's bytes, and it
\* returns exactly the source's bytes.
C13_ReaderReadOnce ==
    /\ job.pc = "reader" => IsPrefix(job.vec, Bytes(last.pre[1].items))
    /\ (/\ Called("into_bytes")
        /\ last.pre[1].kind = "Reader"
        /\ NoFailure(last.pre[1].items))
            => last.ret = OkBytes(Bytes(last.pre[1].items))

-----------------------------------------------------------------------------
(***************************************************************************)
(* Properties of the reader view                                           *)
(***************************************************************************)

\* The view was made of a chunk-sequence body.
OverStream == rd.orig # None /\ rd.orig[1].kind = "Stream"

\* The i-th poll of the stream told the view that the stream is finished.
Completion(i) == rd.pulls[i] \in {"end", "after"}

AtEof == rd.op = "poll_read" /\ rd.n > 0 /\ rd.ret = OkBytes(<<>>)

\* The bytes handed out by the view are the chunks' bytes in order, and
\* end-of-file comes only with the stream's completion, when all of them
\* have been handed out.
ReadsConcatenation ==
    (OverStream /\ NoFailure(rd.orig[1].items)) =>
        /\ IsPrefix(rd.got, Bytes(rd.orig[1].items))
        /\ AtEof => /\ rd.pulls # <<>>
                    /\ Completion(Len(rd.pulls))
                    /\ rd.got = Bytes(rd.orig[1].items)

\* At end-of-file the bytes read are what into_bytes returns for the same
\* chunk sequence.
SameAsIntoBytes ==
    (OverStream /\ NoFailure(rd.orig[1].items) /\ AtEof) =>
        \A after \in AfterEnd :
            RunJob(into_bytes_begin(rd.orig[1]), after) = OkBytes(rd.got)

\* C15: reading the view of a chunk sequence to end-of-file yields the
\* concatenation of the chunks in order, empty chunks skipped; a read into a
\* non-empty buffer returns no byte only after the sequence has completed;
\* the bytes read are those into_bytes returns for the same sequence.
C15_ViewReadsAll ==
    /\ ReadsConcatenation
    /\ SameAsIntoBytes

-----------------------------------------------------------------------------
(***************************************************************************)
(* Properties of the stream contract of Body                               *)
(***************************************************************************)

\* C16: iterating a Frozen body yields one failure item, the BodyFrozen
\* condition, and then its end: the first poll yields the failure, every
\* poll after it the end.
C16_FrozenYieldsOnce ==
    (Called("poll_next") /\ is_frozen(last.pre[1]))
        => IF last.before = "" THEN last.ret = ItemErr("BodyFrozen") ELSE last.ret = End

\* C17: iterating a Buffered body yields the whole buffer as one chunk and
\* then its end: a poll of a non-empty buffer yields all of it and leaves the
\* empty buffer, a poll of the empty buffer (so every poll after the chunk)
\* yields the end, leaves the body as it is, and never panics.
C17_BufferedYieldsOnce ==
    (Called("poll_next") /\ last.pre[1].kind = "Once")
        => /\ Target.kind = "Once"
           /\ Target.bytes = <<>>
           /\ IF last.pre[1].bytes # <<>>
              THEN last.ret = Item(last.pre[1].bytes)
              ELSE last.ret = End
           /\ last.before # "" => (last.ret = End /\ Some(Target) = last.pre)

C17_Witness ==
    /\ Called("poll_next")
    /\ last.before = "Item"
    /\ last.was = "fresh"
    /\ last.pre = Some(Once(<<>>))
    /\ last.ret = End
    /\ last.target = "body"
    /\ other = None

\* C18: iterating a Reader body yields the source's bytes in order, each
\* once, and the end when the source is empty; the declared length, if any,
\* is decremented by the size of each chunk yielded and never goes below
\* zero: no underflow and no panic, also when the source delivers more bytes
\* than declared.
C18_ReaderYields ==
    (/\ Called("poll_next")
     /\ last.pre[1].kind = "Reader"
     /\ last.ret.tag # "ItemErr")
        => LET pre == last.pre[1] IN
           /\ last.ret # Panic
           /\ pre.items = <<>> => (last.ret = End /\ Target = pre)
           /\ pre.items # <<>>
                => /\ last.ret = Item(Head(pre.items).data)
                   /\ Target.kind = "Reader"
                   /\ Target.items = Tail(pre.items)
                   /\ (pre.length = None) = (Target.length = None)
                   /\ pre.length # None
                        => /\ Target.length[1] <= pre.length[1]
                           /\ pre.length[1] >= Len(last.ret.bytes)
                                => Target.length[1] = pre.length[1] - Len(last.ret.bytes)

\* C20: a successful as_bytes() on a non-Frozen body of any variant leaves
\* the handle Buffered, not Frozen, holding the bytes into_bytes returns for
\* the value it held, and returns them; as_bytes() again returns the same
\* bytes and changes nothing, and so does an into_bytes() that follows.
C20_AsBytes ==
    /\ (Called("as_bytes") /\ last.ret.tag = "Ok")
        => /\ ~is_frozen(last.pre[1])
           /\ Target = Once(last.ret.bytes)
           /\ ~is_frozen(Target)
           /\ IF last.pre[1].kind = "Reader"
              THEN last.ret = OkBytes(Bytes(last.pre[1].items))
              ELSE \E after \in AfterEnd :
                      last.ret = RunJob(into_bytes_begin(last.pre[1]), after)
    /\ ((Called("as_bytes") \/ Called("into_bytes"))
            /\ last.was = "as_bytes" /\ ~is_frozen(last.pre[1]))
        => /\ last.pre[1].kind = "Once"
           /\ last.ret = OkBytes(last.pre[1].bytes)
           /\ Called("as_bytes") => Some(Target) = last.pre

C20_Witness ==
    /\ Called("as_bytes")
    /\ last.was = "as_bytes"
    /\ last.target = "body"
    /\ last.pre = Some(Once(<<1, 2, 3>>))
    /\ last.ret = OkBytes(<<1, 2, 3>>)
    /\ body = Once(<<1, 2, 3>>)

-----------------------------------------------------------------------------
(***************************************************************************)
(* Properties of the codecs                                                *)
(***************************************************************************)

\* The media type a codec requires.
Required(codec) ==
    IF codec = "into_json" THEN "application/json"
    ELSE "application/x-www-form-urlencoded"

\* The last call was a codec called under a declared content type that is
\* not the codec's.
Mismatched ==
    /\ last.op \in Codecs
    /\ last.ret.tag \notin {"None", "Dropped"}
    /\ last.ctype # ""
    /\ last.ctype # Required(last.op)

\* C19: a codec called on a body whose declared content type is not the
\* codec's fails with the content-type mismatch, which is not the error of a
\* malformed payload, and does not consume or freeze the body.
C19_MismatchRejected ==
    (Mismatched /\ ~is_frozen(last.pre[1]))
        => /\ last.ret = Fail("ContentTypeMismatch")
           /\ ~is_frozen(Target)

-----------------------------------------------------------------------------
(***************************************************************************)
(* Properties of concurrent calls                                          *)
(***************************************************************************)

RECURSIVE Replay(_, _, _)
\* The request body after the first n entries of the history log, starting
\* from the body b0: only the operations in the log change it.
Replay(log, b0, n) ==
    IF n = 0 THEN b0
    ELSE LET b == Replay(log, b0, n - 1)
             e == log[n]
         IN  IF e.ev = "op"
             THEN RequestOp(e.op, b, IF e.arg = None THEN frozen ELSE e.arg[1]).self
             ELSE b

\* The positions of the handlers entered in a history, in the order entered.
EnterEvents(log) == SelectSeq(log, LAMBDA e : e.ev = "enter")

\* The position of the k-th handler of the chain of this App.
ChainPos(k) == IF k <= Len(middlewares) THEN k ELSE EndpointPos

\* Call c has seen nothing but its own request: every body it found is what
\* its own operations made of its own request body, and it entered the
\* handlers of the list in order.
OwnRun(c) ==
    LET log == calls[c].log IN
    /\ \A i \in 1..Len(log) : log[i].body = Replay(log, RequestBody(c), i - 1)
    /\ calls[c].body = Replay(log, RequestBody(c), Len(log))
    /\ \A k \in 1..Len(EnterEvents(log)) : EnterEvents(log)[k].pos = ChainPos(k)

\* A step belongs to one call and leaves the App as it was.
OneCallSteps ==
    /\ middlewares' = middlewares
    /\ endpoint' = endpoint
    /\ \A c, d \in Calls : c # d => (calls'[c] = calls[c] \/ calls'[d] = calls[d])

\* C21: two calls of App::run on one App, interleaved in any way, are
\* independent: each call enters the handlers in the list's order and sees
\* only what its own handlers did to its own request body, each step changes
\* one call only, and no step changes the middleware list or the endpoint.
C21_CallsIndependent ==
    /\ [](\A c \in Calls : OwnRun(c))
    /\ [][OneCallSteps]_vars

\* Both calls are in flight: call 1 has taken or frozen its body at the
\* first middleware and has not forwarded, call 2 has reached the second
\* handler with its body untouched.
C21_Witness ==
    /\ Running(1, "mw")
    /\ TopOf(1).pos = 1
    /\ 1 \in calls[1].opped
    /\ calls[1].body = frozen
    /\ calls[2].phase = "running"
    /\ Len(calls[2].stack) = 2
    /\ calls[2].body = RequestBody(2)
    /\ Len(calls[2].log) = 3

-----------------------------------------------------------------------------
(***************************************************************************)
(* Properties of the list and of the unit handlers                         *)
(***************************************************************************)

\* The enter events of the trace, in order.
Enters == SelectSeq(trace, LAMBDA e : e.ev = "enter")

\* The k-th handler to see the request is the k-th of the list (the endpoint
\* after the last), and every middleware future in flight is the one of the
\* handle at its position.
RunsInListOrder ==
    /\ \A k \in 1..Len(Enters) : Enters[k].pos = k
    /\ \A i \in 1..Len(stack) :
        /\ stack[i].pos = i
        /\ stack[i].kind = "mw" => (i <= Len(middlewares) /\ stack[i].handle = middlewares[i])
        /\ stack[i].kind = "ep" => (i = Len(middlewares) + 1 /\ stack[i].handle = endpoint)

\* A step that changes the list adds one handle behind the ones it holds.
AddedAtEnd ==
    middlewares' # middlewares =>
        /\ Len(middlewares') = Len(middlewares) + 1
        /\ IsPrefix(middlewares, middlewares')

\* C22: the middlewares run in the order they were added: every addition
\* puts the new handle at the end and keeps the earlier ones where they
\* were, and the k-th handler to see the request is the k-th of the list.
C22_AdditionOrder ==
    /\ []RunsInListOrder
    /\ [][AddedAtEnd]_vars

\* Three middlewares were added, the last two differ from the first, and
\* all three have seen the request in that order.
C22_Witness ==
    /\ Len(middlewares) = 3
    /\ middlewares[1] = "A"
    /\ middlewares[2] = "B"
    /\ middlewares[3] = "A"
    /\ Len(stack) = 3
    /\ Len(Enters) = 3

\* trace[i] starts a Next::run whose remaining list is empty: App::run on an
\* App without middleware, or the last middleware calling its continuation.
\* The event itself is the entry when App::run starts the chain.
RunsOnEmpty(i) ==
    \/ i = 1 /\ Len(middlewares) = 0 /\ trace[i].ev = "enter"
    \/ trace[i].ev = "call" /\ trace[i].pos = Len(middlewares)

EndpointEntries == {i \in DOMAIN trace : trace[i].ev = "enter" /\ trace[i].pos = EndpointPos}

\* A zero-length body that is not Frozen.
EmptyBody(b) == ~is_frozen(b) /\ b.kind = "Once" /\ b.bytes = <<>>

\* C23: a Next::run on an empty remaining list enters the endpoint directly
\* and the endpoint is entered at most once in a call; what the endpoint
\* returns is what that run returns to its caller (the last middleware, or
\* the caller of App::run), unchanged; the unit endpoint returns Ok with
\* status 200 and a body that is empty and not Frozen.
C23_EndpointDirect ==
    /\ \A i \in DOMAIN trace :
        RunsOnEmpty(i) =>
            LET e == IF trace[i].ev = "enter" THEN i ELSE i + 1 IN
            /\ e \in DOMAIN trace
            /\ EndpointEntries = {e}
    /\ (\A i \in DOMAIN trace : ~RunsOnEmpty(i)) => EndpointEntries = {}
    /\ \A i \in DOMAIN trace :
        (trace[i].ev = "return" /\ trace[i].pos = EndpointPos) =>
            /\ IF Len(middlewares) = 0
               THEN phase = "done" /\ result = trace[i].res
               ELSE /\ i + 1 \in DOMAIN trace
                    /\ trace[i + 1].ev = "post"
                    /\ trace[i + 1].pos = Len(middlewares)
                    /\ trace[i + 1].res = trace[i].res
            /\ endpoint = "unit" =>
                /\ trace[i].res.tag = "Ok"
                /\ trace[i].res.status = StatusOk
                /\ trace[i].res.body # None
                /\ EmptyBody(trace[i].res.body[1])

\* An App with no middleware and the unit endpoint has been run: the
\* endpoint was entered first and the call returned its empty 200 response.
C23_Witness ==
    /\ middlewares = <<>>
    /\ endpoint = "unit"
    /\ phase = "done"
    /\ Len(trace) = 2
    /\ trace[1].ev = "enter"
    /\ trace[2].ev = "return"
    /\ result.status = StatusOk
    /\ result.body = Some(empty)

\* trace[i] is the unit middleware being entered.
UnitEntered(i) ==
    /\ trace[i].ev = "enter"
    /\ trace[i].pos <= Len(middlewares)
    /\ middlewares[trace[i].pos] = "unit"

\* C30: the unit middleware never calls its continuation: once it is
\* entered at position p no handler after p is entered in that call and p
\* never forwards, and what it returns is Ok with status 200 and an empty
\* body.
C30_UnitStops ==
    \A i \in DOMAIN trace :
        UnitEntered(i) =>
            /\ \A j \in DOMAIN trace :
                /\ (trace[j].ev = "enter") => trace[j].pos <= trace[i].pos
                /\ (trace[j].ev = "call") => trace[j].pos < trace[i].pos
                /\ (trace[j].ev = "return" /\ trace[j].pos = trace[i].pos) =>
                    /\ ~trace[j].called
                    /\ trace[j].res.tag = "Ok"
                    /\ trace[j].res.status = StatusOk
                    /\ trace[j].res.body # None
                    /\ EmptyBody(trace[j].res.body[1])

\* The unit middleware sits between A and B; A forwarded, the unit
\* middleware returned, and A has the response back.
C30_Witness ==
    /\ middlewares = <<"A", "unit", "B">>
    /\ \E j \in DOMAIN trace :
        /\ trace[j].ev = "return"
        /\ trace[j].pos = 2
        /\ trace[j].res = ResponseEmpty(2)
    /\ trace[Len(trace)].ev = "post"
    /\ trace[Len(trace)].pos = 1

-----------------------------------------------------------------------------
(***************************************************************************)
(* Properties of reading a body whole                                      *)
(***************************************************************************)

\* The last call has returned (it is neither pending nor dropped).
HasReturned == last.ret.tag \notin {"None", "Dropped"}

\* What Body::into_bytes returns for the Body b, and what Body::into_string
\* returns for it: one value for each thing a stream polled after its end
\* may do.
IntoBytesOf(b) == {RunJob(into_bytes_begin(b), after) : after \in AfterEnd}
IntoStringOf(b) == {from_utf8(r) : r \in IntoBytesOf(b)}

\* C24: Request/Response::into_bytes and into_string return what
\* Body::into_bytes and Body::into_string return for the body the owner
\* held, and consume it: after the call the owner's body is Frozen, and
\* into_bytes, into_string and take_body on the owner fail with BodyFrozen as
\* long as no replace_body has installed a new body.
C24_OwnerConsumes ==
    /\ (last.op \in OwnerOps /\ HasReturned) =>
            last.ret \in (IF last.op = "owner_into_bytes"
                          THEN IntoBytesOf(last.pre[1])
                          ELSE IntoStringOf(last.pre[1]))
    /\ last.op \in OwnerOps => body = frozen
    /\ mark.body = "into" => body = frozen
    /\ (/\ last.target = "body"
        /\ last.op \in OwnerOps \cup {"take"}
        /\ last.was = "into")
       => (last.ret = BodyFrozen /\ body = frozen)

\* The body was read through its owner, and the owner's into_bytes called
\* again on the Frozen body it left has failed with BodyFrozen.
C24_Witness ==
    /\ last.op = "owner_into_bytes"
    /\ last.was = "into"
    /\ last.pre = Some(frozen)
    /\ last.ret = BodyFrozen
    /\ body = frozen
    /\ job = Idle

\* C25: into_string succeeds exactly when into_bytes succeeds with bytes
\* that are valid UTF-8, and then returns the same bytes; on bytes that are
\* not valid UTF-8 it fails with Error::Utf8; on a Frozen body it fails with
\* BodyFrozen.
C25_IntoString ==
    (last.op \in StringOps /\ HasReturned) =>
        \E r \in IntoBytesOf(last.pre[1]) :
            /\ last.ret.tag = "Ok" <=> (r.tag = "Ok" /\ ValidUtf8(r.bytes))
            /\ last.ret.tag = "Ok" => last.ret.bytes = r.bytes
            /\ (r.tag = "Ok" /\ ~ValidUtf8(r.bytes)) => last.ret = Fail("Utf8")
            /\ r.tag # "Ok" => last.ret = r
            /\ is_frozen(last.pre[1]) => last.ret = BodyFrozen

\* A stream of two chunks that do not make up a character sequence was read
\* with into_string, which failed with Error::Utf8.
C25_Witness ==
    /\ last.op = "into_string"
    /\ last.pre = Some(from_stream(<<Chunk(<<1>>), Chunk(<<2>>)>>))
    /\ last.ret = Fail("Utf8")
    /\ job = Idle

-----------------------------------------------------------------------------
(***************************************************************************)
(* Properties of the request body along one call                           *)
(***************************************************************************)

\* The history of the one call.
Log == calls[1].log

\* The Body passed to the operation e (Body::frozen() when it takes none).
ArgOf(e) == IF e.arg = None THEN frozen ELSE e.arg[1]

\* The request body the operation e left behind.
LeftBy(e) == RequestOp(e.op, e.body, ArgOf(e)).self

\* Log[i] is a handler taking or freezing a body that was there.
TakesOrFreezes(i) ==
    /\ Log[i].ev = "op"
    /\ Log[i].body # frozen
    /\ LeftBy(Log[i]) = frozen

\* Log[i] is a handler replacing the body by one that is not Frozen.
Replaces(i) ==
    /\ Log[i].ev = "op"
    /\ Log[i].op = "replace_body"
    /\ ArgOf(Log[i]) # frozen

\* Log[k] is the handler of Log[i] calling its continuation after Log[i],
\* without an operation of its own in between.
ForwardsAfter(i, k) ==
    /\ i < k
    /\ Log[k].ev = "call"
    /\ Log[k].pos = Log[i].pos
    /\ \A m \in (i + 1)..(k - 1) : Log[m].ev # "op"

\* Log[j] is an attempt to take or read the body.
Attempt(j) == Log[j].ev = "op" /\ Log[j].op \in {"take_body", "into_bytes"}

\* No operation between Log[k] and Log[j] changes the body.
Untouched(k, j) ==
    \A m \in (k + 1)..(j - 1) : Log[m].ev = "op" => LeftBy(Log[m]) = Log[m].body

\* What an attempt returns on the body new.
ReadOf(op, new) == RequestOp(op, new, frozen).ret

\* C26 as stated: after a middleware that took or froze the body forwards,
\* every later attempt fails with BodyFrozen, and after one that replaced
\* the body forwards, every later attempt reads the replacement.
C26_Original ==
    \A i, k, j \in DOMAIN Log :
        (ForwardsAfter(i, k) /\ k < j /\ Attempt(j)) =>
            /\ TakesOrFreezes(i) => Log[j].ret = BodyFrozen
            /\ Replaces(i) => Log[j].ret = ReadOf(Log[j].op, ArgOf(Log[i]))

\* C26: every handler finds the request body as the handlers before it left
\* it; after a middleware that took or froze the body forwards, an attempt
\* of a later handler fails with BodyFrozen, and after one that replaced the
\* body forwards, an attempt of a later handler reads the replacement, in
\* both cases as long as no handler in between has changed the body.
C26_LaterHandlersObserve ==
    /\ \A i \in DOMAIN Log : Log[i].body = Replay(Log, RequestBody(1), i - 1)
    /\ \A i, k, j \in DOMAIN Log :
        (ForwardsAfter(i, k) /\ k < j /\ Attempt(j) /\ Untouched(k, j)) =>
            /\ TakesOrFreezes(i) => Log[j].ret = BodyFrozen
            /\ Replaces(i) => Log[j].ret = ReadOf(Log[j].op, ArgOf(Log[i]))

\* The first middleware replaced the body and forwarded, the second read
\* the replacement and forwarded, and the endpoint's take failed.
C26_Witness ==
    /\ Len(middlewares) = 2
    /\ \E i, j, l \in DOMAIN Log :
        /\ Replaces(i) /\ Log[i].pos = 1
        /\ Log[j].pos = 2 /\ Attempt(j) /\ Log[j].op = "into_bytes"
        /\ Log[j].ret = OkBytes(ArgOf(Log[i]).bytes)
        /\ Log[l].pos = 3 /\ Attempt(l) /\ Log[l].op = "take_body"
        /\ Log[l].ret = BodyFrozen

\* The step is a poll of the into_bytes future in flight (and not its drop).
JobPolled == job.pc \in {"reader", "first", "second", "drain"} /\ last'.ret.tag # "Dropped"

\* The pull the future in flight makes next is answered with a failure.
PullFails == job.src.items # <<>> /\ Head(job.src.items).err

\* C27: when a pull of the reader or of the stream fails while into_bytes
\* reads it, into_bytes returns with that failure (Error::Io for a reader,
\* Error::Other for a stream), not with BodyFrozen and not with the bytes
\* read so far, and the future is over, so the source is not pulled again.
C27_FailureReturned ==
    [][(JobPolled /\ PullFails) =>
            /\ job' = Idle
            /\ last'.ret = Fail(IF job.pc = "reader" THEN "Io" ELSE "Other")]_vars

\* into_bytes on a stream of one chunk followed by a failure has returned
\* the failure.
C27_Witness ==
    /\ last.op = "into_bytes"
    /\ last.pre = Some(from_stream(<<Chunk(<<1>>), Failure>>))
    /\ last.ret = Fail("Other")
    /\ job = Idle

\* C28: into_bytes never polls a stream that has signalled its end.
C28_NoPullAfterEnd ==
    [][(JobPolled /\ job.pc # "reader") => ~job.src.ended]_vars

\* C29: as_bytes on a Frozen body fails with BodyFrozen and leaves it
\* Frozen; an as_bytes that returns a failure of the source leaves the handle
\* Frozen; and take, as_bytes and into_bytes on a handle an as_bytes left
\* Frozen fail with BodyFrozen.
C29_AsBytesFailure ==
    /\ (last.op = "as_bytes" /\ last.pre = Some(frozen)) =>
            (last.ret = BodyFrozen /\ Get(last.target) = frozen)
    /\ (last.op = "as_bytes" /\ last.ret.tag = "Err" /\ last.pre # Some(frozen)) =>
            (last.ret.err \in {"Io", "Other"} /\ Get(last.target) = frozen)
    /\ (/\ last.op \in {"take", "as_bytes", "into_bytes"}
        /\ last.was = "as_bytes"
        /\ last.pre = Some(frozen))
       => last.ret = BodyFrozen

\* as_bytes on a stream of one chunk followed by a failure has returned the
\* failure and the handle is Frozen.
C29_Witness ==
    /\ last.op = "as_bytes"
    /\ last.pre = Some(from_stream(<<Chunk(<<1>>), Failure>>))
    /\ last.ret = Fail("Other")
    /\ Get(last.target) = frozen
    /\ job = Idle

-----------------------------------------------------------------------------
(***************************************************************************)
(* Properties of a drained buffer and of ResultExt                         *)
(***************************************************************************)

\* The last call is a poll_next that yielded the chunk of a non-empty buffer.
Drained ==
    /\ Called("poll_next")
    /\ last.pre[1].kind = "Once"
    /\ last.pre[1].bytes # <<>>

\* C31: a buffer drained through poll_next is not Frozen: the handle holds
\* the value Body::empty() makes, so is_frozen() is false, len() is Some(0),
\* take() returns the empty buffer and into_bytes() of it returns no bytes;
\* and these are what the calls return on a handle that holds that value.
C31_DrainedIsEmpty ==
    /\ Drained =>
        /\ last.ret = Item(last.pre[1].bytes)
        /\ Target = empty
        /\ ~is_frozen(Target)
        /\ len(Target) = Some(0)
        /\ take(Target).ret = OkBody(empty)
        /\ IntoBytesOf(Target) = {OkBytes(<<>>)}
    /\ (Called("is_frozen") /\ last.pre = Some(empty)) => last.ret = Value(FALSE)
    /\ (Called("len") /\ last.pre = Some(empty)) => last.ret = Size(Some(0))
    /\ (Called("take") /\ last.pre = Some(empty)) => last.ret = OkBody(empty)
    /\ (Called("into_bytes") /\ last.pre = Some(empty)) => last.ret = OkBytes(<<>>)

\* The buffer <<1, 2>> has been drained by one poll_next and the handle
\* holds the empty buffer.
C31_Witness ==
    /\ Drained
    /\ last.pre = Some(from_bytes(<<1, 2>>))
    /\ last.ret = Item(<<1, 2>>)
    /\ Get(last.target) = empty

\* status() has returned or panicked.
StatusCalled == ext.ret # ExtPending

\* The receiver is a success value.
Success == ext.recv.tag \in {"Ok", "Some"}

\* C32: status(s) on Ok(v) or Some(v) returns Ok(v) for every s and does not
\* panic; on Err or None a call that returns gives an Err that carries s.
C32_SuccessUnchanged ==
    StatusCalled =>
        /\ Success => ext.ret = ExtOk(ext.recv.v)
        /\ (~Success /\ ext.ret.tag # "Panic") =>
                (ext.ret.tag = "Err" /\ ext.ret.status = ext.status)

====
